---- MODULE Spec2Model ----
(***************************************************************************)
(* A model of broccoli, a declarative command-line binder for Go.          *)
(*                                                                         *)
(* The model follows the current variant of the package (buildCommand,     *)
(* bindCommand, setValue, NewApp, App.Bind, App.Help, App.Schema and       *)
(* command.init).  A Go string is a TLA+ string                            *)
(* (TLC evaluates Len, SubSeq and \o on strings), so prefix tests, slicing  *)
(* and digit parsing are computed on the text as the code computes them.   *)
(* A reflect.Value is a pair (value, type): values are strings, integers,  *)
(* booleans, [nil, val] records for pointers, [len, arr] records for       *)
(* slices and functions from field index to value for structs.  Floating   *)
(* point destinations are outside the model.                               *)
(***************************************************************************)
EXTENDS Integers, Sequences, FiniteSets, TLC

VARIABLES
    pc,       \* "start" (no App yet), "ready" (NewApp returned), "done" (Bind returned)
    rt,       \* name of the struct type the caller binds into
    app,      \* the App NewApp returned: [c |-> command]
    environ,  \* the process environment: variable name -> [nil, val]
    args,     \* the token list handed to Bind
    dst,      \* the caller's instance (the struct v points to)
    ret,      \* Bind's results: [args, c, err]
    value,    \* coercion harness: the text handed to setValue
    field,    \* coercion harness: the destination (its type and its value)
    cerr,     \* coercion harness: setValue's result, "pending" before the call
    schema,   \* the fields of the schema nodes that init() stores to
    procs,    \* the goroutines calling into the schema: operation and call stack
    os,       \* the process around BindOSArgs: exit status, output streams, result
    build     \* buildCommand step by step: its call stack and how it ended

vars == <<pc, rt, app, environ, args, dst, ret, value, field, cerr, schema, procs, os,
          build>>

bindVars == <<pc, rt, app, environ, args, dst, ret>>
coerceVars == <<value, field, cerr>>
initVars == <<schema, procs>>

-----------------------------------------------------------------------------
(* Bounds of the model *)

\* Longest token list handed to Bind.
MaxArgs == 3

\* Longest text enumerated over CoerceAlphabet for setValue.
MaxTextLen == 4

\* Comma-separated segments of a text coerced into a sequence or a boolean.
MaxSegs == 3

\* Capacity of the sequence a field holds before the coercion.
MaxCap == 2

\* Goroutines calling into the schema besides the one running NewApp.
MaxCallers == 1

-----------------------------------------------------------------------------
(* Go strings *)

HasPrefix(s, prefix) ==
    /\ Len(s) >= Len(prefix)
    /\ SubSeq(s, 1, Len(prefix)) = prefix

\* s[n:]
SliceFrom(s, n) == SubSeq(s, n + 1, Len(s))

TrimPrefix(s, prefix) == IF HasPrefix(s, prefix) THEN SliceFrom(s, Len(prefix)) ELSE s

\* A quoting that leaves the text bare.
QuoteBare(s) == s

\* strconv.Quote, for text without characters that need escaping
Quote(s) == "\"" \o s \o "\""

\* *string and other optional values
Nil == [nil |-> TRUE]
Some(v) == [nil |-> FALSE, val |-> v]

-----------------------------------------------------------------------------
(* strconv *)

LowerDigits == "0123456789abcdefghijklmnopqrstuvwxyz"
UpperDigits == "0123456789ABCDEFGHIJKLMNOPQRSTUVWXYZ"

\* strconv.ParseUint's digit test: '0'..'9', then lower(c) in 'a'..'z'; any
\* other character is a syntax error (an underscore separates digits only
\* with base 0, which setValue never passes).
IsDigitChar(c) ==
    \/ \E i \in 1..Len(LowerDigits) : SubSeq(LowerDigits, i, i) = c
    \/ \E i \in 1..Len(UpperDigits) : SubSeq(UpperDigits, i, i) = c

DigitVal(c) ==
    IF \E i \in 1..Len(LowerDigits) : SubSeq(LowerDigits, i, i) = c
    THEN (CHOOSE i \in 1..Len(LowerDigits) : SubSeq(LowerDigits, i, i) = c) - 1
    ELSE (CHOOSE i \in 1..Len(UpperDigits) : SubSeq(UpperDigits, i, i) = c) - 1

RECURSIVE parseDigits(_, _, _, _)
parseDigits(s, base, i, acc) ==
    IF i > Len(s) THEN [ok |-> TRUE, val |-> acc]
    ELSE LET c == SubSeq(s, i, i)
         IN  IF ~IsDigitChar(c) \/ DigitVal(c) >= base THEN [ok |-> FALSE, val |-> 0]
             ELSE parseDigits(s, base, i + 1, acc * base + DigitVal(c))

\* strconv.ParseUint(s, base, 64) for base in {2, 8, 10, 16}: no sign, no
\* prefix, at least one digit.  The texts of the model are short, so the
\* 64-bit range error is out of reach.
ParseUint(s, base) ==
    IF s = "" THEN [ok |-> FALSE, val |-> 0] ELSE parseDigits(s, base, 1, 0)

\* strconv.ParseInt(s, base, 64): one optional leading sign, then ParseUint.
ParseInt(s, base) ==
    IF s = "" THEN [ok |-> FALSE, val |-> 0]
    ELSE LET c0  == SubSeq(s, 1, 1)
             neg == c0 = "-"
             s1  == IF c0 = "+" \/ c0 = "-" THEN SliceFrom(s, 1) ELSE s
             un  == ParseUint(s1, base)
         IN  IF ~un.ok THEN un
             ELSE [ok |-> TRUE, val |-> IF neg THEN 0 - un.val ELSE un.val]

\* strconv.ParseBool
ParseBool(s) ==
    IF s \in {"1", "t", "T", "TRUE", "true", "True"} THEN [ok |-> TRUE, val |-> TRUE]
    ELSE IF s \in {"0", "f", "F", "FALSE", "false", "False"} THEN [ok |-> TRUE, val |-> FALSE]
    ELSE [ok |-> FALSE, val |-> FALSE]

\* strings.Split(s, ","): the segments between commas, empty ones included;
\* one segment (the whole text) when there is no comma.
RECURSIVE splitFrom(_, _, _)
splitFrom(s, i, cur) ==
    IF i > Len(s) THEN <<cur>>
    ELSE IF SubSeq(s, i, i) = "," THEN <<cur>> \o splitFrom(s, i + 1, "")
    ELSE splitFrom(s, i + 1, cur \o SubSeq(s, i, i))

Split(s) == splitFrom(s, 1, "")

-----------------------------------------------------------------------------
(* reflect: types and values *)

IntKinds == {"int", "int8", "int16", "int32", "int64"}
UintKinds == {"uint", "uint8", "uint16", "uint32", "uint64"}

\* Width in bits of an integer kind (int and uint are 64 bits wide).
Bits(kind) ==
    CASE kind \in {"int8", "uint8"} -> 8
      [] kind \in {"int16", "uint16"} -> 16
      [] kind \in {"int32", "uint32"} -> 32
      [] OTHER -> 64

RECURSIVE Pow2(_)
Pow2(n) == IF n = 0 THEN 1 ELSE 2 * Pow2(n - 1)

\* reflect.Value.SetInt stores int8(x), int16(x), ...: x reduced to the
\* width of the destination.  Values of the model stay below 2^31, so only
\* the 8 and 16 bit reductions can change them.
SetInt(x, kind) ==
    IF Bits(kind) > 16 THEN x
    ELSE LET m == Pow2(Bits(kind))
             r == x % m
         IN  IF r >= m \div 2 THEN r - m ELSE r

\* reflect.Value.SetUint stores uint8(x), uint16(x), ...
SetUint(x, kind) ==
    IF Bits(kind) > 16 THEN x ELSE x % Pow2(Bits(kind))

TString == [kind |-> "string"]
TBool == [kind |-> "bool"]
TInt(kind) == [kind |-> kind]
TPtr(elem) == [kind |-> "ptr", elem |-> elem]
TSlice(elem) == [kind |-> "slice", elem |-> elem]
TStruct(name) == [kind |-> "struct", name |-> name]

-----------------------------------------------------------------------------
(* The struct types of the calling program.                                *)
(*                                                                         *)
(*   type DeepApp struct {                                                 *)
(*       _ struct{} `command:"deep" about:"Deep"`                          *)
(*       A int8     `flag:"a" alias:"a" default:"7"`                       *)
(*       B int8     `flag:"b" env:"NAME"`                                  *)
(*   }                                                                     *)
(*   type AddApp struct {                                                  *)
(*       _       struct{} `command:"add" about:"Add"`                      *)
(*       A       int      `flag:"a" alias:"a" required:"true"`             *)
(*       Verbose *bool    `flag:"verbose" alias:"v"`                       *)
(*       Deep    *DeepApp `subcommand:"deep"`                              *)
(*   }                                                                     *)
(*   type App struct {                                                     *)
(*       _       struct{} `version:"1.0.0" command:"app" about:"Test"`     *)
(*       Name    string   `flag:"name" alias:"n"`                          *)
(*       Verbose bool     `flag:"verbose" alias:"v" default:"true"`        *)
(*       note    string                                                    *)
(*       Extra   string                                                    *)
(*       Add     *AddApp  `subcommand:"add"`                               *)
(*       Deep    *DeepApp `subcommand:"deep"`                              *)
(*   }                                                                     *)
(*                                                                         *)
(* AppRD, AppRE and AppDE are App with required:"true" (R),               *)
(* default:"D" (D) and env:"NAME" (E) added to the tag of Name.            *)
(*                                                                         *)
(* TestApp is the struct of the tests that carries a sequence flag, with  *)
(* one boolean and one integer flag beside it:                             *)
(*                                                                         *)
(* Tree has a subcommand of its own type, Ping and Pong have each other   *)
(* as subcommand, and Bad tags a string as subcommand:                     *)
(*                                                                         *)
(*   type Tree struct {                                                    *)
(*       _    struct{} `command:"tree"`                                    *)
(*       Leaf int      `flag:"leaf"`                                       *)
(*       Sub  *Tree    `subcommand:"sub"`                                  *)
(*   }                                                                     *)
(*   type Ping struct { Pong *Pong  `subcommand:"pong"` }                  *)
(*   type Pong struct { Ping *Ping  `subcommand:"ping"` }                  *)
(*   type Bad  struct { Sub  string `subcommand:"sub"` }                   *)
(*                                                                         *)
(*   type TestApp struct {                                                 *)
(*       _           struct{} `command:"test"`                             *)
(*       Clothes     []string `flag:"clothes" alias:"c" required:"true"`   *)
(*       IsDeveloper bool     `flag:"dev" alias:"d" default:"false"`       *)
(*       note        string                                                *)
(*       Extra       string                                                *)
(*       Age         int8     `flag:"age"`                                 *)
(*   }                                                                     *)
(***************************************************************************)

RootTypes == {"App", "AppRD", "AppRE", "AppDE"}

NameTags(tn) ==
    [flag |-> "name", alias |-> "n", about |-> "Your name"]
    @@ (IF tn \in {"AppRD", "AppRE"} THEN [required |-> "true"] ELSE <<>>)
    @@ (IF tn \in {"AppRD", "AppDE"} THEN [default |-> "D"] ELSE <<>>)
    @@ (IF tn \in {"AppRE", "AppDE"} THEN [env |-> "NAME"] ELSE <<>>)

Field(name, exported, type, tags) ==
    [name |-> name, exported |-> exported, type |-> type, tags |-> tags]

\* reflect.Type.Field(i) for i = 0 .. NumField()-1 is StructFields(tn)[i + 1].
StructFields(tn) ==
    CASE tn = "struct{}" -> <<>>
      [] tn = "DeepApp" ->
           << Field("_", FALSE, TStruct("struct{}"), [command |-> "deep", about |-> "Deep"]),
              Field("A", TRUE, TInt("int8"), [flag |-> "a", alias |-> "a", default |-> "7"]),
              Field("B", TRUE, TInt("int8"), [flag |-> "b", env |-> "NAME"]) >>
      [] tn = "AddApp" ->
           << Field("_", FALSE, TStruct("struct{}"), [command |-> "add", about |-> "Add"]),
              Field("A", TRUE, TInt("int"), [flag |-> "a", alias |-> "a", required |-> "true"]),
              Field("Verbose", TRUE, TPtr(TBool), [flag |-> "verbose", alias |-> "v"]),
              Field("Deep", TRUE, TPtr(TStruct("DeepApp")), [subcommand |-> "deep"]) >>
      [] tn = "Tree" ->
           << Field("_", FALSE, TStruct("struct{}"), [command |-> "tree"]),
              Field("Leaf", TRUE, TInt("int"), [flag |-> "leaf"]),
              Field("Sub", TRUE, TPtr(TStruct("Tree")), [subcommand |-> "sub"]) >>
      [] tn = "Ping" ->
           << Field("Pong", TRUE, TPtr(TStruct("Pong")), [subcommand |-> "pong"]) >>
      [] tn = "Pong" ->
           << Field("Ping", TRUE, TPtr(TStruct("Ping")), [subcommand |-> "ping"]) >>
      [] tn = "Bad" ->
           << Field("Sub", TRUE, TString, [subcommand |-> "sub"]) >>
      [] tn = "TestApp" ->
           << Field("_", FALSE, TStruct("struct{}"), [command |-> "test"]),
              Field("Clothes", TRUE, TSlice(TString),
                    [flag |-> "clothes", alias |-> "c", required |-> "true"]),
              Field("IsDeveloper", TRUE, TBool,
                    [flag |-> "dev", alias |-> "d", default |-> "false"]),
              Field("note", FALSE, TString, <<>>),
              Field("Extra", TRUE, TString, <<>>),
              Field("Age", TRUE, TInt("int8"), [flag |-> "age"]) >>
      [] tn \in RootTypes ->
           << Field("_", FALSE, TStruct("struct{}"),
                    [version |-> "1.0.0", command |-> "app", about |-> "Test"]),
              Field("Name", TRUE, TString, NameTags(tn)),
              Field("Verbose", TRUE, TBool,
                    [flag |-> "verbose", alias |-> "v", default |-> "true"]),
              Field("note", FALSE, TString, <<>>),
              Field("Extra", TRUE, TString, <<>>),
              Field("Add", TRUE, TPtr(TStruct("AddApp")), [subcommand |-> "add"]),
              Field("Deep", TRUE, TPtr(TStruct("DeepApp")), [subcommand |-> "deep"]) >>

NumField(t) == Len(StructFields(t.name))

\* reflect.StructTag.Lookup
HasTag(tags, key) == key \in DOMAIN tags

\* reflect.Zero of a type; a struct is a function from field index (0-based,
\* as reflect numbers fields) to the field's value.  StructFields is the
\* table of the struct types of the program (defined with the schemas).
RECURSIVE Zero(_)

\* setValue works on one destination: pointers are followed (a nil pointer is
\* allocated first), then the text is stored according to the kind.  The
\* result is [err, val]: val is the destination after the call, which keeps
\* whatever was allocated or written before an error.
ErrNil == "nil"
ErrCanNotParse == "cannot parse value"
ErrCanNotSet == "cannot set value"

Zero(t) ==
    CASE t.kind = "string" -> ""
      [] t.kind = "bool" -> FALSE
      [] t.kind \in IntKinds \cup UintKinds -> 0
      [] t.kind = "ptr" -> Nil
      [] t.kind = "slice" -> [len |-> 0, arr |-> <<>>]
      [] t.kind = "struct" ->
           [i \in 0..(NumField(t) - 1) |-> Zero(StructFields(t.name)[i + 1].type)]

\* strings.HasPrefix(value, "0x") || ... || strings.HasPrefix(value, "+0X")
HasRadixPrefix(v, lower, upper) ==
    \/ HasPrefix(v, "0" \o lower) \/ HasPrefix(v, "0" \o upper)
    \/ HasPrefix(v, "-0" \o lower) \/ HasPrefix(v, "-0" \o upper)
    \/ HasPrefix(v, "+0" \o lower) \/ HasPrefix(v, "+0" \o upper)

\* A slice that drops the leading zero only.
RadixDigitsFromOne(v) == SliceFrom(v, 1)

\* The text handed to the parser once a radix prefix was seen: value[2:]
RadixDigits(v) == SliceFrom(v, 2)

\* The base setValue parses in, and the text it parses.
HexBase == 16
BinBase == 2
OctBase == 8
DecBase == 10

RadixOf(v) ==
    IF HasRadixPrefix(v, "x", "X") THEN HexBase
    ELSE IF HasRadixPrefix(v, "b", "B") THEN BinBase
    ELSE IF HasRadixPrefix(v, "o", "O") THEN OctBase
    ELSE DecBase

RadixText(v) == IF RadixOf(v) = DecBase THEN v ELSE RadixDigits(v)

RECURSIVE setValue(_, _, _, _)
RECURSIVE setElems(_, _, _, _)

\* for i := 0; i < len(val); i++ { err = setValue(dst.Index(i), val[i]) ... }
\* arr is the backing array, vals the segments, i the 1-based position.
setElems(arr, et, vals, i) ==
    IF i > Len(vals) THEN [err |-> ErrNil, val |-> arr]
    ELSE LET r == setValue(arr[i], et, vals[i], TRUE)
             arr1 == [arr EXCEPT ![i] = r.val]
         IN  IF r.err # ErrNil THEN [err |-> r.err, val |-> arr1]
             ELSE setElems(arr1, et, vals, i + 1)

setValue(v, t, text, canSet) ==
    IF t.kind = "ptr" THEN
        \* a nil pointer is allocated, then the pointee is the destination
        LET pointee == IF v.nil THEN Zero(t.elem) ELSE v.val
            r == setValue(pointee, t.elem, text, TRUE)
        IN  [err |-> r.err, val |-> Some(r.val)]
    ELSE IF ~canSet THEN [err |-> ErrCanNotSet, val |-> v]
    ELSE IF t.kind = "string" THEN [err |-> ErrNil, val |-> text]
    ELSE IF t.kind \in IntKinds THEN
        LET p == ParseInt(RadixText(text), RadixOf(text))
        IN  IF ~p.ok THEN [err |-> ErrCanNotParse, val |-> v]
            ELSE [err |-> ErrNil, val |-> SetInt(p.val, t.kind)]
    ELSE IF t.kind \in UintKinds THEN
        LET p == ParseUint(RadixText(text), RadixOf(text))
        IN  IF ~p.ok THEN [err |-> ErrCanNotParse, val |-> v]
            ELSE [err |-> ErrNil, val |-> SetUint(p.val, t.kind)]
    ELSE IF t.kind = "slice" THEN
        LET vals == Split(text)
            n == Len(vals)
            arr0 == IF Len(v.arr) < n
                    THEN [i \in 1..n |-> Zero(t.elem)]
                    ELSE v.arr
            r == setElems(arr0, t.elem, vals, 1)
        IN  [err |-> r.err, val |-> [len |-> n, arr |-> r.val]]
    ELSE
        \* no case for any other kind (bool, struct, ...): nothing is stored
        [err |-> ErrNil, val |-> v]

-----------------------------------------------------------------------------
(* Schema Builder: buildCommand *)

ErrTypeNotSupported == "broccoli: type not supported"
ErrTypeMismatch == "broccoli: type mismatch"
ErrHelp == "broccoli: help requested"

\* for rt.Kind() == reflect.Pointer { rt = rt.Elem() }
RECURSIVE StripPtr(_)
StripPtr(t) == IF t.kind = "ptr" THEN StripPtr(t.elem) ELSE t

OptTag(tags, key) == IF HasTag(tags, key) THEN Some(tags[key]) ELSE Nil

\* fieldMeta of a field tagged `flag`; the kind is that of the field's type
\* with pointers stripped.
FlagMeta(f, i) ==
    [ Name     |-> f.tags["flag"],
      Kind     |-> StripPtr(f.type).kind,
      Index    |-> i,
      Default  |-> OptTag(f.tags, "default"),
      Env      |-> OptTag(f.tags, "env"),
      Alias    |-> OptTag(f.tags, "alias"),
      Required |-> IF HasTag(f.tags, "required")
                   THEN ParseBool(f.tags["required"]).val ELSE FALSE,
      About    |-> IF HasTag(f.tags, "about") THEN f.tags["about"] ELSE "" ]

\* The command-level metadata read from a zero-field marker field.
WithMarker(cmd, tags) ==
    [cmd EXCEPT
        !.Command   = IF HasTag(tags, "command") THEN tags["command"] ELSE @,
        !.Author    = IF HasTag(tags, "author") THEN Some(tags["author"]) ELSE @,
        !.About     = IF HasTag(tags, "about") THEN Some(tags["about"]) ELSE @,
        !.LongAbout = IF HasTag(tags, "long_about") THEN Some(tags["long_about"]) ELSE @,
        !.Version   = IF HasTag(tags, "version") THEN Some(tags["version"]) ELSE @]

RECURSIVE buildCommand(_, _)
RECURSIVE buildFields(_, _, _)

\* The loop over the fields of rt, from field i (0-based) on.
buildFields(t, i, cmd) ==
    IF i >= NumField(t) THEN [err |-> ErrNil, cmd |-> cmd]
    ELSE LET f == StructFields(t.name)[i + 1]
         IN  IF f.type.kind = "struct" /\ NumField(f.type) = 0
             THEN buildFields(t, i + 1, WithMarker(cmd, f.tags))
             ELSE IF ~f.exported
             THEN buildFields(t, i + 1, cmd)
             ELSE IF HasTag(f.tags, "subcommand")
             THEN LET sub == buildCommand(f.type, f.tags["subcommand"])
                  IN  IF sub.err # ErrNil THEN [err |-> sub.err, cmd |-> cmd]
                      ELSE buildFields(t, i + 1,
                             [cmd EXCEPT !.SubCommands =
                                 Append(@, [sub.cmd EXCEPT !.Index = i])])
             ELSE IF HasTag(f.tags, "flag")
             THEN IF HasTag(f.tags, "required") /\ ~ParseBool(f.tags["required"]).ok
                  THEN [err |-> "strconv.ParseBool: invalid syntax", cmd |-> cmd]
                  ELSE buildFields(t, i + 1,
                         [cmd EXCEPT !.Flags = Append(@, FlagMeta(f, i))])
             ELSE buildFields(t, i + 1, cmd)

buildCommand(rt0, commandName) ==
    LET t == StripPtr(rt0)
    IN  IF t.kind # "struct"
        THEN [err |-> ErrTypeNotSupported, cmd |-> Nil]
        ELSE buildFields(t, 0,
               [ Type |-> t, Command |-> commandName, Index |-> 0,
                 Author |-> Nil, About |-> Nil, LongAbout |-> Nil, Version |-> Nil,
                 Flags |-> <<>>, SubCommands |-> <<>> ])

\* The name NewApp derives from os.Executable(), used until a marker field
\* gives the command its name.
ExeName == "prog"

\* NewApp(v): the schema of the type of v.
NewAppOf(tn) == buildCommand(TPtr(TStruct(tn)), ExeName)

-----------------------------------------------------------------------------
(* Argument Binder: bindCommand *)

\* An error value: its class and its message.
Err(kind, msg) == [kind |-> kind, msg |-> msg]
NoErr == Err("nil", "")

\* os.LookupEnv
LookupEnv(env, name) == IF name \in DOMAIN env THEN env[name] ELSE Nil

\* The type of dst.Field(i)
FieldType(t, i) == StructFields(t.name)[i + 1].type

hasLongPrefix(tok) == HasPrefix(tok, "--")
hasShortPrefix(tok) == HasPrefix(tok, "-")

\* rawName: the token without its "--" or "-"
rawName(tok) == IF hasLongPrefix(tok) THEN SliceFrom(tok, 2) ELSE SliceFrom(tok, 1)

\* name: rawName without a leading "!"
flagName(tok) == TrimPrefix(rawName(tok), "!")

\* The condition under which a token selects a flag.
Matches(flag, tok) ==
    \/ hasLongPrefix(tok) /\ flag.Name = flagName(tok)
    \/ hasShortPrefix(tok) /\ ~flag.Alias.nil /\ flag.Alias.val = flagName(tok)

\* for j := range cmd.Flags: the first flag the token selects, 0 for none
selectedFlag(cmd, tok) ==
    IF \E j \in 1..Len(cmd.Flags) : Matches(cmd.Flags[j], tok)
    THEN CHOOSE j \in 1..Len(cmd.Flags) :
            /\ Matches(cmd.Flags[j], tok)
            /\ \A k \in 1..(j - 1) : ~Matches(cmd.Flags[k], tok)
    ELSE 0

\* The tokens a caller may pass: the flags of the schemas in their long,
\* alias, negated and long-prefixed-alias forms, values, subcommand names
\* and the help flag.  Each node declares only some of the flags, so a flag
\* of one node is an undeclared flag for the others.
Tokens ==
    { "--name", "-n", "--n", "--!name", "X", "7",
      "--verbose", "--!verbose", "-v", "-!v",
      "add", "deep", "--a", "--help" }

\* The tokens of the lists that repeat the flags of TestApp.
RepeatTokens ==
    { "--clothes", "-c", "a", "a,b", "--dev", "--!dev", "--age", "7", "1" }

\* selectedFlag for every struct type of the program and every token, each
\* computed once: the flags of a node are those of its type.
Selected ==
    [tn \in RootTypes \cup {"AddApp", "DeepApp", "TestApp"} |->
        [tok \in Tokens \cup RepeatTokens |->
            selectedFlag(buildCommand(TStruct(tn), tn).cmd, tok)]]

\* The flag a token selects at node cmd, 0 for none.
FindFlag(cmd, tok) ==
    IF tok \in Tokens \cup RepeatTokens
    THEN Selected[cmd.Type.name][tok]
    ELSE selectedFlag(cmd, tok)

\* The value a boolean flag's token stores.
BoolTokenValue(tok) == ~HasPrefix(rawName(tok), "!")

\* What the scan records for a boolean flag and for a flag with a value.
WrittenBool(flag, tok) == "--" \o flag.Name
WrittenValue(flag, tok) == tok

\* A help test that every undeclared flag passes.
IsHelpTokenAnyFlag(tok) == TRUE

\* A help test that knows the short form only.
IsHelpTokenShortOnly(tok) == tok = "-h"

IsHelpToken(tok) == tok = "--help" \/ tok = "-h"

\* for i := range cmd.SubCommands: the first child named args[0], 0 for none
\* A dispatch that looks for a subcommand name at every position.
FindSubCommandAnywhere(cmd, a) ==
    IF \E i \in 1..Len(a), k \in 1..Len(cmd.SubCommands) : cmd.SubCommands[k].Command = a[i]
    THEN CHOOSE k \in 1..Len(cmd.SubCommands) :
            \E i \in 1..Len(a) : cmd.SubCommands[k].Command = a[i]
    ELSE 0

FindSubCommand(cmd, a) ==
    IF Len(a) > 0 /\ \E k \in 1..Len(cmd.SubCommands) : cmd.SubCommands[k].Command = a[1]
    THEN CHOOSE k \in 1..Len(cmd.SubCommands) :
            /\ cmd.SubCommands[k].Command = a[1]
            /\ \A m \in 1..(k - 1) : cmd.SubCommands[m].Command # a[1]
    ELSE 0

\* A dispatch that hands the child the parent's whole list.
SubCommandArgsWhole(a) == a

\* The tokens handed to the child: args[1:]
SubCommandArgs(a) == Tail(a)

\* The flag scan.  st = [dst, WrittenFields, MaxIndex, err]; a scan that
\* ends with an error keeps the writes made before it.  scanArgs is the loop
\* from token i (0-based) on, scanFlag the body for a token that selected
\* flag j, scanStored the part after setValue returned r.
RECURSIVE scanArgs(_, _, _, _, _)
RECURSIVE scanToken(_, _, _, _, _, _)
RECURSIVE scanFlag(_, _, _, _, _, _, _)
RECURSIVE scanStored(_, _, _, _, _, _, _)

\* A scan that goes on at the value token instead of after it.
scanStoredRescan(cmd, a, i, st, canSet, flag, r) ==
    IF r.err = ErrCanNotParse
    THEN [st EXCEPT
            !.dst = [@ EXCEPT ![flag.Index] = r.val],
            !.err = Err("parse", "can not parse " \o Quote(a[i + 2]) \o " as " \o flag.Kind)]
    ELSE scanArgs(cmd, a, i + 1,
           [st EXCEPT
              !.dst = [@ EXCEPT ![flag.Index] = r.val],
              !.WrittenFields = Append(@, WrittenValue(flag, a[i + 1])),
              !.MaxIndex = i], canSet)

\* A scan in which the first occurrence of a flag wins: a flag that is in
\* WrittenFields already keeps what it holds.
scanStoredFirstWins(cmd, a, i, st, canSet, flag, r) ==
    IF r.err = ErrCanNotParse
    THEN [st EXCEPT
            !.dst = [@ EXCEPT ![flag.Index] = r.val],
            !.err = Err("parse", "can not parse " \o Quote(a[i + 2]) \o " as " \o flag.Kind)]
    ELSE scanArgs(cmd, a, i + 2,
           [st EXCEPT
              !.dst = IF \E k \in 1..Len(st.WrittenFields) :
                            FindFlag(cmd, st.WrittenFields[k]) = FindFlag(cmd, a[i + 1])
                      THEN @
                      ELSE [@ EXCEPT ![flag.Index] = r.val],
              !.WrittenFields = Append(@, WrittenValue(flag, a[i + 1])),
              !.MaxIndex = i + 1], canSet)

scanStored(cmd, a, i, st, canSet, flag, r) ==
    IF r.err = ErrCanNotParse
    THEN [st EXCEPT
            !.dst = [@ EXCEPT ![flag.Index] = r.val],
            !.err = Err("parse", "can not parse " \o Quote(a[i + 2]) \o " as " \o flag.Kind)]
    ELSE scanArgs(cmd, a, i + 2,
           [st EXCEPT
              !.dst = [@ EXCEPT ![flag.Index] = r.val],
              !.WrittenFields = Append(@, WrittenValue(flag, a[i + 1])),
              !.MaxIndex = i + 1], canSet)

scanFlag(cmd, a, i, st, canSet, flag, ft) ==
    IF flag.Kind = "bool"
    THEN IF canSet /\ ft.kind # "bool"
         THEN \* SetBool on a Value whose kind is not Bool panics
              [st EXCEPT !.err = Err("panic",
                  "reflect: call of reflect.Value.SetBool on " \o ft.kind \o " Value")]
         ELSE scanArgs(cmd, a, i + 1,
                [st EXCEPT
                   !.dst = IF canSet
                           THEN [@ EXCEPT ![flag.Index] = BoolTokenValue(a[i + 1])]
                           ELSE @,
                   !.WrittenFields = Append(@, WrittenBool(flag, a[i + 1])),
                   !.MaxIndex = i], canSet)
    ELSE IF i + 1 >= Len(a)
    THEN [st EXCEPT !.err =
            Err("requires", flagName(a[i + 1]) \o " requires " \o flag.Kind)]
    ELSE scanStored(cmd, a, i, st, canSet, flag,
                    setValue(st.dst[flag.Index], ft, a[i + 2], canSet))

scanToken(cmd, a, i, st, canSet, j) ==
    IF j = 0
    THEN IF IsHelpToken(a[i + 1])
         THEN [st EXCEPT !.err = Err("help", ErrHelp)]
         ELSE scanArgs(cmd, a, i + 1, [st EXCEPT !.MaxIndex = i], canSet)
    ELSE scanFlag(cmd, a, i, st, canSet, cmd.Flags[j],
                  FieldType(cmd.Type, cmd.Flags[j].Index))

scanArgs(cmd, a, i, st, canSet) ==
    IF i >= Len(a) THEN st
    ELSE IF ~(hasLongPrefix(a[i + 1]) \/ hasShortPrefix(a[i + 1]))
    THEN st                                                        \* break
    ELSE scanToken(cmd, a, i, st, canSet, FindFlag(cmd, a[i + 1]))

\* Whether the resolution pass finds a flag in WrittenFields.
\* A written-test that knows the long form only.
IsWrittenLongOnly(flag, written) ==
    \E j \in 1..Len(written) :
        HasPrefix(written[j], "--") /\ SliceFrom(written[j], 2) = flag.Name

\* A written-test that looks at the first entry of WrittenFields only.
IsWrittenFirstOnly(flag, written) ==
    /\ written # <<>>
    /\ IF HasPrefix(written[1], "--")
       THEN SliceFrom(written[1], 2) = flag.Name
       ELSE /\ HasPrefix(written[1], "-")
            /\ ~flag.Alias.nil
            /\ SliceFrom(written[1], 1) = flag.Alias.val

IsWritten(flag, written) ==
    \E j \in 1..Len(written) :
        IF HasPrefix(written[j], "--")
        THEN SliceFrom(written[j], 2) = flag.Name
        ELSE /\ HasPrefix(written[j], "-")
             /\ ~flag.Alias.nil
             /\ SliceFrom(written[j], 1) = flag.Alias.val

\* The resolution pass from flag i (1-based) on: env, then default, then
\* the required check, for every flag that is not found in WrittenFields.
\* resolveStored is the part after setValue returned r for a text that came
\* from the environment ("parseEnv") or from the default ("parseDefault").
RECURSIVE resolveFlags(_, _, _, _, _)
RECURSIVE resolveStored(_, _, _, _, _, _, _, _)

\* A resolution that undoes the node's writes when a value does not parse.
resolveStoredUndone(cmd, i, st, env, canSet, r, kind, msg) ==
    IF r.err = ErrCanNotParse
    THEN [st EXCEPT !.dst = Zero(cmd.Type), !.err = Err(kind, msg)]
    ELSE resolveFlags(cmd, i + 1,
           [st EXCEPT !.dst = [@ EXCEPT ![cmd.Flags[i].Index] = r.val]], env, canSet)

resolveStored(cmd, i, st, env, canSet, r, kind, msg) ==
    IF r.err = ErrCanNotParse
    THEN [st EXCEPT !.dst = [@ EXCEPT ![cmd.Flags[i].Index] = r.val],
                    !.err = Err(kind, msg)]
    ELSE resolveFlags(cmd, i + 1,
           [st EXCEPT !.dst = [@ EXCEPT ![cmd.Flags[i].Index] = r.val]], env, canSet)

EnvOf(flag, env) == IF flag.Env.nil THEN Nil ELSE LookupEnv(env, flag.Env.val)

resolveFlags(cmd, i, st, env, canSet) ==
    IF i > Len(cmd.Flags) THEN st
    ELSE IF IsWritten(cmd.Flags[i], st.WrittenFields)
    THEN resolveFlags(cmd, i + 1, st, env, canSet)
    ELSE
    LET flag == cmd.Flags[i]
        ft == FieldType(cmd.Type, flag.Index)
    IN  IF ~EnvOf(flag, env).nil
        THEN resolveStored(cmd, i, st, env, canSet,
               setValue(st.dst[flag.Index], ft, EnvOf(flag, env).val, canSet),
               "parseEnv",
               "can not parse (env " \o flag.Env.val \o ") "
                  \o Quote(EnvOf(flag, env).val) \o " as " \o flag.Kind)
        ELSE IF ~flag.Default.nil
        THEN resolveStored(cmd, i, st, env, canSet,
               setValue(st.dst[flag.Index], ft, flag.Default.val, canSet),
               "parseDefault",
               "can not parse (default value) "
                  \o Quote(flag.Default.val) \o " as " \o flag.Kind)
        ELSE IF flag.Required
        THEN [st EXCEPT !.err = Err("required",
                 "required parameter " \o flag.Name \o " is missing")]
        ELSE resolveFlags(cmd, i + 1, st, env, canSet)

\* The remainder returned on success: args[0:] for no tokens, else
\* args[MaxIndex+1:].
Remainder(a, MaxIndex) ==
    IF Len(a) <= 0 THEN a ELSE SliceFrom(a, MaxIndex + 1)

\* bindCommand(cmd, args, dst): v is the value of dst and t its type.  The
\* result is [args, c, err, dst]: the remainder (nil, written <<>>, with an
\* error), the node that handled binding, the error, and dst after the call.
RECURSIVE bindCommand(_, _, _, _, _, _)

\* The result seen through the pointer that was followed.
ThroughPtr(r) == [r EXCEPT !.dst = Some(r.dst)]

\* A child bound in a copy: the parent's field is left as it was.
ThroughFieldCopy(r, v, idx) == [r EXCEPT !.dst = v]

\* The child's result seen from the parent: the child's instance is field
\* idx of the parent's.
ThroughField(r, v, idx) == [r EXCEPT !.dst = [v EXCEPT ![idx] = r.dst]]

\* A failed scan that hands back a cleared instance.
AfterScanCleared(cmd, st, env, canSet) ==
    IF st.err.kind = "nil" THEN resolveFlags(cmd, 1, st, env, canSet)
    ELSE [st EXCEPT !.dst = Zero(cmd.Type)]

\* The resolution pass runs when the scan ended without an error.
AfterScan(cmd, st, env, canSet) ==
    IF st.err.kind = "nil" THEN resolveFlags(cmd, 1, st, env, canSet) ELSE st

\* return nil, cmd, err  /  return args[MaxIndex+1:], cmd, nil
BindResult(cmd, a, st) ==
    IF st.err.kind # "nil"
    THEN [args |-> <<>>, c |-> cmd, err |-> st.err, dst |-> st.dst]
    ELSE [args |-> Remainder(a, st.MaxIndex), c |-> cmd, err |-> NoErr, dst |-> st.dst]

\* A dispatch that reports the dispatching node as the handling node.
bindFieldByParent(cmd, a, v, t, env, canSet, sub) ==
    [ThroughField(bindCommand(sub, SubCommandArgs(a), v[sub.Index],
                              FieldType(t, sub.Index), env, canSet),
                  v, sub.Index) EXCEPT !.c = cmd]

bindField(cmd, a, v, t, env, canSet, sub) ==
    ThroughField(bindCommand(sub, SubCommandArgs(a), v[sub.Index],
                             FieldType(t, sub.Index), env, canSet),
                 v, sub.Index)

bindCommand(cmd, a, v, t, env, canSet) ==
    IF t.kind = "ptr"
    THEN ThroughPtr(bindCommand(cmd, a, IF v.nil THEN Zero(t.elem) ELSE v.val,
                                t.elem, env, TRUE))
    ELSE IF t.kind # "struct" \/ t # cmd.Type
    THEN [args |-> <<>>, c |-> cmd, err |-> Err("typeMismatch", ErrTypeMismatch), dst |-> v]
    ELSE IF FindSubCommand(cmd, a) # 0
    THEN bindField(cmd, a, v, t, env, canSet, cmd.SubCommands[FindSubCommand(cmd, a)])
    ELSE BindResult(cmd, a,
           AfterScan(cmd,
             scanArgs(cmd, a, 0,
               [dst |-> v, WrittenFields |-> <<>>, MaxIndex |-> 0, err |-> NoErr], canSet),
             env, canSet))

\* App.Bind(dst, args): with an error the caller gets its own args back.
AppBindResult(a, r) ==
    [ args |-> IF r.err.kind # "nil" THEN a ELSE r.args,
      c    |-> r.c,
      err  |-> r.err,
      dst  |-> r.dst ]

\* a.Bind(&inst, args) for the App of command cmd and inst of type tn; dst in
\* the result is inst after the call.
AppBind(cmd, a, tn, inst, env) ==
    LET r == AppBindResult(a, bindCommand(cmd, a, Some(inst), TPtr(TStruct(tn)), env, TRUE))
    IN  [r EXCEPT !.dst = @.val]

-----------------------------------------------------------------------------
(* Help rendering: command.init                                            *)
(*                                                                         *)
(* A schema node is named by its path: the positions, in SubCommands, of   *)
(* the nodes from the root down to it.  buildCommand allocates every node  *)
(* on the heap and appends a copy of each child to its parent's            *)
(* SubCommands, so a child exists twice: the object buildCommand allocated *)
(* ("heap") and the element of the parent's slice ("slot").  Both hold the *)
(* same *sync.Once.  init() runs on the root's heap object and on the      *)
(* slots below it.                                                         *)

Front(p) == SubSeq(p, 1, Len(p) - 1)

RECURSIVE NodeAt(_, _)
NodeAt(cmd, p) ==
    IF p = <<>> THEN cmd ELSE NodeAt(cmd.SubCommands[Head(p)], Tail(p))

\* The nodes of the schema, parents before children.
RECURSIVE NodeList(_)
RECURSIVE ChildLists(_, _)
ChildLists(cmd, i) ==
    IF i > Len(cmd.SubCommands) THEN <<>>
    ELSE [k \in 1..Len(NodeList(cmd.SubCommands[i])) |->
              <<i>> \o NodeList(cmd.SubCommands[i])[k]]
         \o ChildLists(cmd, i + 1)

NodeList(cmd) == <<(<<>>)>> \o ChildLists(cmd, 1)

Nodes(cmd) == {NodeList(cmd)[k] : k \in 1..Len(NodeList(cmd))}

\* A *command: the object of a node, on the heap or in its parent's slice.
Ptr(p, place) == Some([path |-> p, place |-> place])

\* The receiver of init() on node p.
Self(p) == Ptr(p, IF p = <<>> THEN "heap" ELSE "slot")

\* Parent as buildCommand stores it: the heap object of the parent.
BuiltParent(p) == IF p = <<>> THEN Nil ELSE Ptr(Front(p), "heap")

\* The fields init() stores to, over the nodes ps, as buildCommand leaves
\* them; renders counts the runs of the function handed to initOnce.Do.
BuiltOver(ps) ==
    [ initOnce |-> [p \in ps |-> "new"],
      Help     |-> [p \in ps |-> ""],
      Parent   |-> [p \in ps |-> BuiltParent(p)],
      renders  |-> [p \in ps |-> 0] ]

\* The schema as buildCommand leaves it.
Built(cmd) == BuiltOver(Nodes(cmd))

\* No schema: NewApp has not been called.
Unbuilt == BuiltOver({})

\* sync.Once.Do: what a caller does on finding the Once in state st.
OnceUnguarded(st) == "run"

OnceDo(st) ==
    CASE st = "new"     -> "run"
      [] st = "running" -> "wait"
      [] st = "done"    -> "skip"

RECURSIVE Spaces(_)
Spaces(n) == IF n <= 0 THEN "" ELSE " " \o Spaces(n - 1)

LowerLetters == "abcdefghijklmnopqrstuvwxyz"
UpperLetters == "ABCDEFGHIJKLMNOPQRSTUVWXYZ"

\* strings.ToUpper on ASCII text.
RECURSIVE ToUpper(_)
ToUpper(s) ==
    IF s = "" THEN ""
    ELSE LET ch == SubSeq(s, 1, 1)
             at == {i \in 1..Len(LowerLetters) : SubSeq(LowerLetters, i, i) = ch}
         IN  (IF at = {} THEN ch
              ELSE LET i == CHOOSE i \in at : TRUE IN SubSeq(UpperLetters, i, i))
             \o ToUpper(SliceFrom(s, 1))

\* parent.Parent for the object ptr points to: a slot's Parent is the field
\* init() stores to, a heap object's is the one buildCommand stored.
ParentOf(ptr, Par) ==
    IF ptr.val.place = "heap" THEN BuiltParent(ptr.val.path)
    ELSE Par[ptr.val.path]

\* subcommandPath: the names from the node up to the root.
RECURSIVE subcommandPath(_, _, _)
subcommandPath(cmd, ptr, Par) ==
    IF ptr.nil THEN <<>>
    ELSE <<NodeAt(cmd, ptr.val.path).Command>>
         \o subcommandPath(cmd, ParentOf(ptr, Par), Par)

\* The names written from the last to the first, a space between two.
RECURSIVE writePath(_, _)
writePath(names, i) ==
    IF i < 1 THEN ""
    ELSE names[i] \o (IF i > 1 THEN " " ELSE "") \o writePath(names, i - 1)

\* " --name <NAME>" for every required flag, from flag i on.
RECURSIVE usageRequired(_, _)
usageRequired(flags, i) ==
    IF i > Len(flags) THEN ""
    ELSE (IF flags[i].Required
          THEN " --" \o flags[i].Name \o " <" \o ToUpper(flags[i].Name) \o ">"
          ELSE "")
         \o usageRequired(flags, i + 1)

\* CommandNames[i]: "\t-a, --name " or "\t--name ".
CommandName(f) ==
    "\t" \o (IF ~f.Alias.nil THEN "-" \o f.Alias.val \o ", " ELSE "")
    \o "--" \o f.Name \o " "

helpOption == "\t-h, --help "

RECURSIVE maxLength(_, _, _)
maxLength(lens, i, m) ==
    IF i > Len(lens) THEN m
    ELSE maxLength(lens, i + 1, IF lens[i] > m THEN lens[i] ELSE m)

\* The line of flag i and those after it, names padded to column width.
RECURSIVE optionLines(_, _, _)
optionLines(flags, i, width) ==
    IF i > Len(flags) THEN ""
    ELSE LET f == flags[i]
         IN  CommandName(f) \o Spaces(width - Len(CommandName(f)))
             \o f.About \o " "
             \o (IF ~f.Default.nil THEN "[default: " \o f.Default.val \o "]" ELSE "")
             \o (IF ~f.Env.nil THEN " [env: " \o f.Env.val \o "]" ELSE "")
             \o (IF f.Required THEN " (required)" ELSE "")
             \o "\n"
             \o optionLines(flags, i + 1, width)

RECURSIVE commandLines(_, _, _)
commandLines(subs, i, width) ==
    IF i > Len(subs) THEN ""
    ELSE "\t" \o subs[i].Command \o Spaces(width - Len(subs[i].Command))
         \o (IF ~subs[i].About.nil THEN subs[i].About.val ELSE "")
         \o "\n"
         \o commandLines(subs, i + 1, width)

\* The text the function handed to initOnce.Do builds for node p, reading
\* the Parent fields Par.
Render(cmd, p, Par) ==
    LET a == NodeAt(cmd, p)
        names == subcommandPath(cmd, Self(p), Par)
        optWidth == maxLength([i \in 1..Len(a.Flags) |-> Len(CommandName(a.Flags[i]))],
                              1, Len(helpOption)) + 4
        cmdWidth == maxLength([i \in 1..Len(a.SubCommands) |->
                                   Len(a.SubCommands[i].Command)], 1, 0) + 4
    IN  "Usage: \n\t"
        \o (IF ~Par[p].nil THEN writePath(names, Len(names)) ELSE a.Command)
        \o (IF Len(a.SubCommands) > 0 THEN " <COMMAND>" ELSE "")
        \o (IF Len(a.Flags) > 0 THEN " [OPTIONS]" \o usageRequired(a.Flags, 1) ELSE "")
        \o " [ARGUEMENTS]\n\n"
        \o (IF Len(a.Flags) > 0
            THEN "Options:\n" \o optionLines(a.Flags, 1, optWidth)
                 \o helpOption \o Spaces(optWidth - Len(helpOption))
                 \o "Print this help message and exit" \o "\n"
            ELSE "")
        \o "\n"
        \o (IF Len(a.SubCommands) > 0
            THEN "Commands:\n" \o commandLines(a.SubCommands, 1, cmdWidth)
            ELSE "")

\* The schema after one call of init() on the root that ran alone: every
\* Once done, every node rendered, every child's Parent its parent's
\* receiver.
Initialized(cmd) ==
    LET par == [p \in Nodes(cmd) |-> IF p = <<>> THEN Nil ELSE Self(Front(p))]
    IN  [ initOnce |-> [p \in Nodes(cmd) |-> "done"],
          Help     |-> [p \in Nodes(cmd) |-> Render(cmd, p, par)],
          Parent   |-> par,
          renders  |-> [p \in Nodes(cmd) |-> 1] ]

-----------------------------------------------------------------------------
(* The program: NewApp, the environment, Bind *)

ArgLists == UNION { [1..n -> Tokens] : n \in 0..MaxArgs }

EnvNames == {"NAME"}
EnvValues == {"E"}

\* The instance the caller hands to Bind: zero but for the two fields that
\* carry no flag or subcommand tag.
Instance(tn) == [Zero(TStruct(tn)) EXCEPT ![3] = "n0", ![4] = "e0"]

\* No buildCommand under way.
NotBuilding == [state |-> "off", stack |-> <<>>, result |-> Nil]

\* The process while BindOSArgs has neither returned nor exited.
Running ==
    [exited |-> FALSE, code |-> 0, stdout |-> "", stderr |-> "",
     returned |-> FALSE, ra |-> <<>>]

Pending == [args |-> <<>>, c |-> Nil, err |-> Err("pending", "")]

Init ==
    /\ pc = "start"
    /\ rt \in RootTypes
    /\ app = Nil
    /\ environ = [n \in EnvNames |-> Nil]
    /\ args = <<>>
    /\ dst = Instance(rt)
    /\ ret = Pending
    /\ value = ""
    /\ field = [type |-> TString, val |-> ""]
    /\ cerr = "off"
    /\ schema = Unbuilt
    /\ procs = <<>>
    /\ os = Running
    /\ build = NotBuilding

\* a, err := NewApp(&dst)
NewApp ==
    /\ pc = "start"
    /\ LET built == NewAppOf(rt)
       IN  /\ built.err = ErrNil
           /\ app' = [c |-> built.cmd]
           /\ schema' = Initialized(built.cmd)
    /\ pc' = "ready"
    /\ UNCHANGED <<os, build, rt, environ, args, dst, ret, coerceVars, procs>>

\* os.Setenv(name, val), before the arguments are bound
Setenv(name, val) ==
    /\ pc \in {"start", "ready"}
    /\ environ' = [environ EXCEPT ![name] = Some(val)]
    /\ UNCHANGED <<os, build, pc, rt, app, args, dst, ret, coerceVars, initVars>>

\* os.Unsetenv(name)
Unsetenv(name) ==
    /\ pc \in {"start", "ready"}
    /\ ~environ[name].nil
    /\ environ' = [environ EXCEPT ![name] = Nil]
    /\ UNCHANGED <<os, build, pc, rt, app, args, dst, ret, coerceVars, initVars>>

\* rest, node, err := a.Bind(&dst, a), once NewApp has returned (Next states
\* that guard, outside the choice of a)
Bind(a) ==
    /\ \E r \in {AppBind(app.c, a, rt, dst, environ)} :
           /\ dst' = r.dst
           /\ ret' = [args |-> r.args, c |-> r.c, err |-> r.err]
    /\ args' = a
    /\ pc' = "done"
    /\ UNCHANGED <<os, build, rt, app, environ, coerceVars, initVars>>

Next ==
    \/ NewApp
    \/ \E n \in EnvNames, v \in EnvValues : Setenv(n, v)
    \/ \E n \in EnvNames : Unsetenv(n)
    \/ pc = "ready" /\ \E a \in ArgLists : Bind(a)

Spec == Init /\ [][Next]_vars

-----------------------------------------------------------------------------
(* Bind of lists that repeat a flag, on the struct with a sequence flag *)

\* The longest list: two occurrences of a flag with its value each.
MaxRepeat == 4

RepeatLists == UNION { [1..n -> RepeatTokens] : n \in 0..MaxRepeat }

InitRepeat ==
    /\ pc = "start"
    /\ rt = "TestApp"
    /\ app = Nil
    /\ environ = [n \in EnvNames |-> Nil]
    /\ args = <<>>
    /\ dst = Instance(rt)
    /\ ret = Pending
    /\ value = ""
    /\ field = [type |-> TString, val |-> ""]
    /\ cerr = "off"
    /\ schema = Unbuilt
    /\ procs = <<>>
    /\ os = Running
    /\ build = NotBuilding

NextRepeat ==
    \/ NewApp
    \/ pc = "ready" /\ \E a \in RepeatLists : Bind(a)

SpecRepeat == InitRepeat /\ [][NextRepeat]_vars

-----------------------------------------------------------------------------
(* buildCommand step by step *)

\* The depth of nested buildCommand calls at which the goroutine's stack is
\* used up and the runtime ends the process with a stack overflow.
MaxDepth == 6

BuildTypes == RootTypes \cup {"AddApp", "DeepApp", "TestApp", "Tree", "Ping", "Bad"}

\* cmd := &command{...}: the frame of a call for struct type t, at field 0.
NewFrame(t, commandName) ==
    [ t |-> t, i |-> 0,
      cmd |-> [ Type |-> t, Command |-> commandName, Index |-> 0,
                Author |-> Nil, About |-> Nil, LongAbout |-> Nil, Version |-> Nil,
                Flags |-> <<>>, SubCommands |-> <<>> ] ]

\* The frame that is running and the field it is at.
TopFrame == build.stack[Len(build.stack)]
AtField == StructFields(TopFrame.t.name)[TopFrame.i + 1]
Building == build.state = "building" /\ TopFrame.i < NumField(TopFrame.t)

IsMarker(f) == f.type.kind = "struct" /\ NumField(f.type) = 0
IsSubCommand(f) == ~IsMarker(f) /\ f.exported /\ HasTag(f.tags, "subcommand")

WithTop(frame) == [build.stack EXCEPT ![Len(build.stack)] = frame]

\* NewApp calls buildCommand(rt, nil, name) for a struct type.
InitBuild ==
    /\ pc = "off"
    /\ rt \in BuildTypes
    /\ app = Nil
    /\ environ = [n \in EnvNames |-> Nil]
    /\ args = <<>>
    /\ dst = <<>>
    /\ ret = Pending
    /\ value = ""
    /\ field = [type |-> TString, val |-> ""]
    /\ cerr = "off"
    /\ schema = Unbuilt
    /\ procs = <<>>
    /\ os = Running
    /\ build = [state |-> "building", stack |-> <<NewFrame(TStruct(rt), ExeName)>>,
                result |-> Nil]

\* One pass of the loop for a field that is no subcommand: a marker, an
\* unexported field, a flag, or a field without a tag.
BuildField ==
    /\ Building
    /\ ~IsSubCommand(AtField)
    /\ \E f \in {AtField}, top \in {TopFrame} :
          IF ~IsMarker(f) /\ f.exported /\ HasTag(f.tags, "flag")
             /\ HasTag(f.tags, "required") /\ ~ParseBool(f.tags["required"]).ok
          THEN build' = [build EXCEPT !.state = "error"]
          ELSE build' = [build EXCEPT !.stack = WithTop(
                 [top EXCEPT
                    !.i = @ + 1,
                    !.cmd = IF IsMarker(f) THEN WithMarker(@, f.tags)
                            ELSE IF f.exported /\ HasTag(f.tags, "flag")
                            THEN [@ EXCEPT !.Flags = Append(@, FlagMeta(f, top.i))]
                            ELSE @])]
    /\ UNCHANGED <<bindVars, coerceVars, initVars, os>>

\* subcmd, err := buildCommand(f.Type, cmd, v): the call, which returns
\* ErrTypeNotSupported at once when the type is no struct.
BuildCall ==
    /\ Building
    /\ IsSubCommand(AtField)
    /\ Len(build.stack) < MaxDepth
    /\ \E t \in {StripPtr(AtField.type)} :
          IF t.kind # "struct"
          THEN build' = [build EXCEPT !.state = "error"]
          ELSE build' = [build EXCEPT !.stack =
                            Append(@, NewFrame(t, AtField.tags["subcommand"]))]
    /\ UNCHANGED <<bindVars, coerceVars, initVars, os>>

\* The same call when the stack has no room for another frame: the runtime
\* reports a stack overflow and the process ends.
BuildOverflow ==
    /\ Building
    /\ IsSubCommand(AtField)
    /\ Len(build.stack) >= MaxDepth
    /\ build' = [build EXCEPT !.state = "overflow"]
    /\ UNCHANGED <<bindVars, coerceVars, initVars, os>>

\* return cmd, nil: to NewApp, or to the caller's loop, which sets the Index
\* and appends the node to its SubCommands.
BuildReturn ==
    /\ build.state = "building"
    /\ TopFrame.i >= NumField(TopFrame.t)
    /\ IF Len(build.stack) = 1
       THEN build' = [build EXCEPT !.state = "schema", !.result = TopFrame.cmd]
       ELSE \E caller \in {build.stack[Len(build.stack) - 1]} :
              build' = [build EXCEPT !.stack =
                 Append(SubSeq(@, 1, Len(@) - 2),
                        [caller EXCEPT
                           !.i = @ + 1,
                           !.cmd = [@ EXCEPT !.SubCommands =
                                       Append(@, [TopFrame.cmd EXCEPT !.Index = caller.i])]])]
    /\ UNCHANGED <<bindVars, coerceVars, initVars, os>>

NextBuild ==
    \/ BuildField
    \/ BuildCall
    \/ BuildOverflow
    \/ BuildReturn

SpecBuild == InitBuild /\ [][NextBuild]_vars

-----------------------------------------------------------------------------
(* The process: BindOSArgs *)

\* os.Exit(code) after the writes out and errout to the two streams.
Exit(code, out, errout) ==
    [Running EXCEPT !.exited = TRUE, !.code = code, !.stdout = out, !.stderr = errout]

\* NewApp for every root type, the nodes of its schema and the schema after
\* init(), each computed once.
BuiltRoots == [tn \in RootTypes |-> NewAppOf(tn)]

RootNodes == [tn \in RootTypes |-> Nodes(BuiltRoots[tn].cmd)]

InitializedRoots == [tn \in RootTypes |-> Initialized(BuiltRoots[tn].cmd)]

\* The path of the node c in the schema of root.
NodePath(root, c) == CHOOSE p \in RootNodes[root.Type.name] : NodeAt(root, p) = c

\* app.Help() for the App of node c: the node's Help after init().
AppHelp(root, c) == InitializedRoots[root.Type.name].Help[NodePath(root, c)]

\* What BindOSArgs prints for a help request: command and version, author,
\* long about or about, an empty line, the help text.
HelpPage(root, c) ==
    c.Command \o (IF ~c.Version.nil THEN " " \o c.Version.val ELSE "") \o "\n"
    \o (IF ~c.Author.nil THEN c.Author.val \o "\n" ELSE "")
    \o (IF ~c.LongAbout.nil THEN c.LongAbout.val \o "\n"
        ELSE IF ~c.About.nil THEN c.About.val \o "\n" ELSE "")
    \o "\n" \o AppHelp(root, c)

\* The end of BindOSArgs for the result r of a.Bind: a panic inside Bind
\* ends the process with the runtime's status 2 and message (the goroutine
\* trace after the message is left out).
OSOutcome(root, r) ==
    IF r.err.kind = "panic"
    THEN Exit(2, "", "panic: " \o r.err.msg \o "\n")
    ELSE IF r.err.kind = "nil"
    THEN [Running EXCEPT !.returned = TRUE, !.ra = r.args]
    ELSE IF r.err = Err("help", ErrHelp)
    THEN Exit(0, HelpPage(root, r.c), "")
    ELSE Exit(1, "", r.err.msg \o "\n" \o "\n" \o AppHelp(root, r.c) \o "\n")

\* rest := BindOSArgs(&dst) with os.Args[1:] = a (Next states the guard
\* pc = "start" outside the choice of a): NewApp, init, Bind, then the
\* return or the exit.
BindOSArgs(a) ==
    /\ \E built \in {BuiltRoots[rt]} :
           /\ built.err = ErrNil
           /\ app' = [c |-> built.cmd]
           /\ schema' = InitializedRoots[rt]
           /\ \E r \in {AppBind(built.cmd, a, rt, dst, environ)} :
                  /\ dst' = r.dst
                  /\ ret' = [args |-> r.args, c |-> r.c, err |-> r.err]
                  /\ os' = OSOutcome(built.cmd, r)
    /\ args' = a
    /\ pc' = "done"
    /\ UNCHANGED <<rt, environ, coerceVars, procs, build>>

NextOS ==
    \/ \E n \in EnvNames, v \in EnvValues : Setenv(n, v)
    \/ \E n \in EnvNames : Unsetenv(n)
    \/ pc = "start" /\ \E a \in ArgLists : BindOSArgs(a)

SpecOS == Init /\ [][NextOS]_vars

-----------------------------------------------------------------------------
(* setValue on its own: one call on a destination of an integer kind *)

\* The characters of the enumerated texts: digits of each base, the radix
\* letters (b is also a hexadecimal digit) and the signs.
CoerceAlphabet == {"0", "1", "7", "A", "x", "b", "o", "-", "+"}

RECURSIVE TextsUpTo(_)
TextsUpTo(n) ==
    IF n = 0 THEN {""}
    ELSE LET shorter == TextsUpTo(n - 1)
         IN  shorter \cup {t \o c : t \in shorter, c \in CoerceAlphabet}

\* Longer texts of interest: 42 in every radix and spelling of the prefix,
\* signed radix prefixes, and values beyond 8 bits.
NamedTexts ==
    { "0x2A", "0X2A", "0b101010", "0B101010", "0o52", "0O52", "42",
      "-0x2A", "+0x2A", "+0b101", "-0b101", "-0o52", "+0o52", "-42", "+42",
      "300", "0x1FF", "-129" }

CoerceTexts == TextsUpTo(MaxTextLen) \cup NamedTexts

CoerceKinds == {"int8", "int", "uint8", "uint"}

InitCoerce ==
    /\ pc = "off"
    /\ rt = "App"
    /\ app = Nil
    /\ environ = [n \in EnvNames |-> Nil]
    /\ args = <<>>
    /\ dst = Instance(rt)
    /\ ret = Pending
    /\ value \in CoerceTexts
    /\ field \in {[type |-> TInt(k), val |-> 0] : k \in CoerceKinds}
    /\ cerr = "pending"
    /\ schema = Unbuilt
    /\ procs = <<>>
    /\ os = Running
    /\ build = NotBuilding

\* err := setValue(dst, value)
Coerce ==
    /\ cerr = "pending"
    /\ \E r \in {setValue(field.val, field.type, value, TRUE)} :
           /\ field' = [field EXCEPT !.val = r.val]
           /\ cerr' = r.err
    /\ UNCHANGED <<os, build, bindVars, value, initVars>>

NextCoerce == Coerce

SpecCoerce == InitCoerce /\ [][NextCoerce]_vars

-----------------------------------------------------------------------------
(* setValue on sequence and boolean destinations *)

\* The texts: one to MaxSegs segments joined by commas.
Segments == {"", "a", "7", "true", "false"}

RECURSIVE JoinedTexts(_)
JoinedTexts(n) ==
    IF n = 1 THEN Segments
    ELSE LET shorter == JoinedTexts(n - 1)
         IN  shorter \cup {t \o "," \o g : t \in shorter, g \in Segments}

\* What a destination holds before the call: a sequence of any length up to
\* its capacity, whose backing array is filled with earlier elements; a
\* boolean; a pointer to a boolean, nil or not.
Earlier(t) ==
    CASE t.kind = "string" -> "old"
      [] t.kind = "bool" -> TRUE
      [] OTHER -> 9

SeqElemTypes == {TString, TInt("int"), TBool}

SeqFields(et) ==
    UNION {{[type |-> TSlice(et), val |-> [len |-> l, arr |-> [i \in 1..c |-> Earlier(et)]]] :
                l \in 0..c} : c \in 0..MaxCap}

BoolFields == {[type |-> TBool, val |-> b] : b \in BOOLEAN}

BoolPtrFields == {[type |-> TPtr(TBool), val |-> p] : p \in {Nil, Some(TRUE)}}

InitCoerceSeq ==
    /\ pc = "off"
    /\ rt = "App"
    /\ app = Nil
    /\ environ = [n \in EnvNames |-> Nil]
    /\ args = <<>>
    /\ dst = Instance(rt)
    /\ ret = Pending
    /\ value \in JoinedTexts(MaxSegs)
    /\ \/ \E et \in SeqElemTypes : field \in SeqFields(et)
       \/ field \in BoolFields
       \/ field \in BoolPtrFields
    /\ cerr = "pending"
    /\ schema = Unbuilt
    /\ procs = <<>>
    /\ os = Running
    /\ build = NotBuilding

SpecCoerceSeq == InitCoerceSeq /\ [][NextCoerce]_vars

-----------------------------------------------------------------------------
(* init() step by step, under concurrent callers                           *)
(*                                                                         *)
(* Caller 0 is NewApp: it has built the schema (app holds the command it   *)
(* is about to return) and calls cmd.init().  The other callers call       *)
(* init() on a node at any time (code of the package), or Help(), Schema() *)
(* or Bind() on the App once NewApp has returned.  A caller's stack holds  *)
(* one frame per init() it is in: the node, the position in init and the   *)
(* index of the loop over SubCommands.                                     *)

Callers == 0..MaxCallers

AppOps == {"Help", "Schema", "Bind"}

Idle ==
    [op |-> "none", node |-> <<>>, at |-> 0, stack |-> <<>>, out |-> <<>>, st |-> "idle"]

Frame(p) == [node |-> p, phase |-> "do", i |-> 1]

Top(c) == procs[c].stack[Len(procs[c].stack)]

InFrame(c, phase) ==
    /\ procs[c].st = "running"
    /\ procs[c].stack # <<>>
    /\ Top(c).phase = phase

SetTop(c, f) == [procs EXCEPT ![c].stack[Len(procs[c].stack)] = f]

InitSchema ==
    /\ pc = "start"
    /\ rt = "App"
    /\ app = [c |-> NewAppOf(rt).cmd]
    /\ environ = [n \in EnvNames |-> Nil]
    /\ args = <<>>
    /\ dst = Instance(rt)
    /\ ret = Pending
    /\ value = ""
    /\ field = [type |-> TString, val |-> ""]
    /\ cerr = "off"
    /\ schema = Built(app.c)
    /\ procs = [c \in Callers |->
                  IF c = 0
                  THEN [Idle EXCEPT !.op = "NewApp", !.st = "running",
                                    !.stack = <<Frame(<<>>)>>]
                  ELSE Idle]
    /\ os = Running
    /\ build = NotBuilding

\* A caller that is in no call starts one: init() on node p, Help() or Schema() on the App of node
\* p, Bind() on the root App with arguments that dispatch down to node p.
Call(c, op, p) ==
    /\ c # 0
    /\ procs[c].st # "running"
    /\ op \in AppOps => pc = "ready"
    /\ procs' = [procs EXCEPT ![c] =
                    [Idle EXCEPT !.op = op, !.node = p, !.st = "running",
                                 !.stack = <<Frame(IF op = "Bind" THEN <<>> ELSE p)>>]]
    /\ UNCHANGED <<os, build, bindVars, coerceVars, schema>>

\* a.initOnce.Do(...): the first caller takes the Once, a caller finding it
\* taken and not yet done blocks, a later caller passes.
OnceEnter(c) ==
    /\ InFrame(c, "do")
    /\ \E d \in {OnceDo(schema.initOnce[Top(c).node])} :
           /\ d # "wait"
           /\ IF d = "run"
              THEN /\ schema' = [schema EXCEPT !.initOnce[Top(c).node] = "running"]
                   /\ procs' = SetTop(c, [Top(c) EXCEPT !.phase = "render"])
              ELSE /\ schema' = schema
                   /\ procs' = SetTop(c, [Top(c) EXCEPT !.phase = "loop"])
    /\ UNCHANGED <<os, build, bindVars, coerceVars>>

\* The function handed to Do, to its last statement a.Help = sb.String().
OnceRun(c) ==
    /\ InFrame(c, "render")
    /\ schema' = [schema EXCEPT
                     !.Help[Top(c).node] = Render(app.c, Top(c).node, schema.Parent),
                     !.renders[Top(c).node] = @ + 1]
    /\ procs' = SetTop(c, [Top(c) EXCEPT !.phase = "unlock"])
    /\ UNCHANGED <<os, build, bindVars, coerceVars>>

\* Do returns: the Once is done and the callers blocked on it proceed.
OnceLeave(c) ==
    /\ InFrame(c, "unlock")
    /\ schema' = [schema EXCEPT !.initOnce[Top(c).node] = "done"]
    /\ procs' = SetTop(c, [Top(c) EXCEPT !.phase = "loop"])
    /\ UNCHANGED <<os, build, bindVars, coerceVars>>

\* One round of the loop after Do: a.SubCommands[i].Parent = a, then
\* a.SubCommands[i].init().
LoopChild(c) ==
    /\ InFrame(c, "loop")
    /\ Top(c).i <= Len(NodeAt(app.c, Top(c).node).SubCommands)
    /\ \E child \in {Top(c).node \o <<Top(c).i>>} :
           /\ schema' = [schema EXCEPT !.Parent[child] = Self(Top(c).node)]
           /\ procs' = [procs EXCEPT ![c].stack =
                           Append(SetTop(c, [Top(c) EXCEPT !.i = @ + 1])[c].stack,
                                  Frame(child))]
    /\ UNCHANGED <<os, build, bindVars, coerceVars>>

\* The loop is over: init() returns to its caller.
InitReturn(c) ==
    /\ InFrame(c, "loop")
    /\ Top(c).i > Len(NodeAt(app.c, Top(c).node).SubCommands)
    /\ procs' = [procs EXCEPT ![c].stack = Front(@)]
    /\ UNCHANGED <<os, build, bindVars, coerceVars, schema>>

\* The nodes of the subtree of p, parents before children.
Subtree(cmd, p) ==
    SelectSeq(NodeList(cmd), LAMBDA q : Len(q) >= Len(p) /\ SubSeq(q, 1, Len(p)) = p)

\* bindCommand has called cmd.init() on the node at depth `at` of the
\* dispatch path and hands the arguments to the next node, which calls
\* init() on itself.
BindDescend(c) ==
    /\ procs[c].st = "running" /\ procs[c].stack = <<>>
    /\ procs[c].op = "Bind"
    /\ procs[c].at < Len(procs[c].node)
    /\ procs' = [procs EXCEPT
                    ![c].at = @ + 1,
                    ![c].stack = <<Frame(SubSeq(procs[c].node, 1, procs[c].at + 1))>>]
    /\ UNCHANGED <<os, build, bindVars, coerceVars, schema>>

\* The operation returns to its caller: NewApp returns the App, Help
\* returns a.c.Help, Schema the marshalled nodes with their help texts.
Finish(c) ==
    /\ procs[c].st = "running" /\ procs[c].stack = <<>>
    /\ procs[c].op = "Bind" => procs[c].at = Len(procs[c].node)
    /\ procs' = [procs EXCEPT
                    ![c].st = "returned",
                    ![c].out =
                        CASE procs[c].op = "Help" -> <<schema.Help[procs[c].node]>>
                          [] procs[c].op = "Schema" ->
                               [k \in 1..Len(Subtree(app.c, procs[c].node)) |->
                                    schema.Help[Subtree(app.c, procs[c].node)[k]]]
                          [] OTHER -> <<>>]
    /\ pc' = IF procs[c].op = "NewApp" THEN "ready" ELSE pc
    /\ UNCHANGED <<os, build, rt, app, environ, args, dst, ret, coerceVars, schema>>

NextInit ==
    \/ \E c \in Callers, op \in {"init"} \cup AppOps, p \in Nodes(app.c) : Call(c, op, p)
    \/ \E c \in Callers : OnceEnter(c)
    \/ \E c \in Callers : OnceRun(c)
    \/ \E c \in Callers : OnceLeave(c)
    \/ \E c \in Callers : LoopChild(c)
    \/ \E c \in Callers : InitReturn(c)
    \/ \E c \in Callers : BindDescend(c)
    \/ \E c \in Callers : Finish(c)

SpecInit == InitSchema /\ [][NextInit]_vars

-----------------------------------------------------------------------------
(* What the claims speak of, read off a state after Bind has returned *)

Done == pc = "done"
Ok == ret.err.kind = "nil"

\* Subcommand dispatch as the specification states it: only the first token
\* of a node's list is compared with the names of the node's children.
\* DispatchNode is the node that handles binding, DispatchArgs its token
\* list and DispatchPath the field indices that lead to its instance.
RECURSIVE DispatchNode(_, _)
DispatchNode(cmd, a) ==
    IF a # <<>> /\ \E k \in 1..Len(cmd.SubCommands) : cmd.SubCommands[k].Command = a[1]
    THEN DispatchNode(
           cmd.SubCommands[CHOOSE k \in 1..Len(cmd.SubCommands) :
                              cmd.SubCommands[k].Command = a[1]],
           Tail(a))
    ELSE cmd

RECURSIVE DispatchDepth(_, _)
DispatchDepth(cmd, a) ==
    IF a # <<>> /\ \E k \in 1..Len(cmd.SubCommands) : cmd.SubCommands[k].Command = a[1]
    THEN 1 + DispatchDepth(
               cmd.SubCommands[CHOOSE k \in 1..Len(cmd.SubCommands) :
                                  cmd.SubCommands[k].Command = a[1]],
               Tail(a))
    ELSE 0

RECURSIVE DispatchPath(_, _)
DispatchPath(cmd, a) ==
    IF a # <<>> /\ \E k \in 1..Len(cmd.SubCommands) : cmd.SubCommands[k].Command = a[1]
    THEN LET sub == cmd.SubCommands[CHOOSE k \in 1..Len(cmd.SubCommands) :
                                       cmd.SubCommands[k].Command = a[1]]
         IN  <<sub.Index>> \o DispatchPath(sub, Tail(a))
    ELSE <<>>

\* The instance reached from v through pointer fields path[1], path[2], ...
RECURSIVE InstAt(_, _)
InstAt(v, path) ==
    IF path = <<>> THEN v ELSE InstAt(v[path[1]].val, Tail(path))

\* What the instance reached through path held when the caller handed v, of
\* struct type t, to Bind: a nil pointer on the way stands for the zero
\* instance that is allocated for it.
RECURSIVE CallerInst(_, _, _)
CallerInst(v, t, path) ==
    IF path = <<>> THEN v
    ELSE CallerInst(IF v[path[1]].nil THEN Zero(FieldType(t, path[1]).elem)
                    ELSE v[path[1]].val,
                    FieldType(t, path[1]).elem, Tail(path))

HNode == DispatchNode(app.c, args)
HArgs == SubSeq(args, DispatchDepth(app.c, args) + 1, Len(args))
HInst == InstAt(dst, DispatchPath(app.c, args))

\* The positions (1-based) of a token list at which the flag scan finds a
\* declared flag: a boolean flag takes one token, any other flag takes the
\* token after it as its value, an undeclared flag is passed over, and the
\* scan ends at the first token that does not begin with "-".
RECURSIVE FlagPositions(_, _, _)
FlagPositions(cmd, a, i) ==
    IF i > Len(a) \/ ~HasPrefix(a[i], "-") THEN {}
    ELSE IF FindFlag(cmd, a[i]) = 0 THEN FlagPositions(cmd, a, i + 1)
    ELSE IF cmd.Flags[FindFlag(cmd, a[i])].Kind = "bool"
    THEN {i} \cup FlagPositions(cmd, a, i + 1)
    ELSE IF i + 1 > Len(a) THEN {}
    ELSE {i} \cup FlagPositions(cmd, a, i + 2)

\* The position at which that scan ends: the first token that is neither a
\* flag nor a flag's value, Len(a) + 1 when there is none.
RECURSIVE ScanEnd(_, _, _)
ScanEnd(cmd, a, i) ==
    IF i > Len(a) \/ ~HasPrefix(a[i], "-") THEN i
    ELSE IF FindFlag(cmd, a[i]) = 0 THEN ScanEnd(cmd, a, i + 1)
    ELSE IF cmd.Flags[FindFlag(cmd, a[i])].Kind = "bool" THEN ScanEnd(cmd, a, i + 1)
    ELSE IF i + 1 > Len(a) THEN i + 1
    ELSE ScanEnd(cmd, a, i + 2)

\* The positions at which flag j is supplied, and the last of them (0 when
\* the tokens do not supply it).
SuppliedAt(cmd, a, j) == {i \in FlagPositions(cmd, a, 1) : FindFlag(cmd, a[i]) = j}

LastSupplied(cmd, a, j) ==
    IF SuppliedAt(cmd, a, j) = {} THEN 0
    ELSE CHOOSE i \in SuppliedAt(cmd, a, j) : \A k \in SuppliedAt(cmd, a, j) : k <= i

\* The value a text denotes for a destination type, stated without the
\* parser: a string is the text, a boolean is true for the truthy words, an
\* integer is the number whose decimal numeral the text is (-1 when it is
\* none of 0..9).
DecimalDigits == "0123456789"
NumeralOf(n) == SubSeq(DecimalDigits, n + 1, n + 1)

Denotes(t, text) ==
    IF t.kind = "ptr" THEN Some(
        CASE t.elem.kind = "string" -> text
          [] t.elem.kind = "bool" -> text \in {"1", "t", "T", "TRUE", "true", "True"}
          [] OTHER -> IF \E n \in 0..9 : NumeralOf(n) = text
                      THEN CHOOSE n \in 0..9 : NumeralOf(n) = text ELSE -1)
    ELSE CASE t.kind = "string" -> text
           [] t.kind = "bool" -> text \in {"1", "t", "T", "TRUE", "true", "True"}
           [] OTHER -> IF \E n \in 0..9 : NumeralOf(n) = text
                       THEN CHOOSE n \in 0..9 : NumeralOf(n) = text ELSE -1

\* The value the tokens give flag j at position i: presence or negation
\* for a boolean flag, the next token for any other flag.
TokenDenotes(cmd, a, i) ==
    LET flag == cmd.Flags[FindFlag(cmd, a[i])]
        t == FieldType(cmd.Type, flag.Index)
    IN  IF flag.Kind = "bool"
        THEN IF t.kind = "ptr" THEN Some(~HasPrefix(a[i], "--!") /\ ~HasPrefix(a[i], "-!"))
             ELSE ~HasPrefix(a[i], "--!") /\ ~HasPrefix(a[i], "-!")
        ELSE Denotes(t, a[i + 1])

\* The environment value of a flag, when its variable is declared and set.
EnvPresent(flag) == ~flag.Env.nil /\ ~LookupEnv(environ, flag.Env.val).nil

-----------------------------------------------------------------------------
(* Value resolution, required flags and the remainder *)

\* C1: after a successful Bind, every flag of the handling node that the
\* tokens supply holds the value of its last supplying token, whatever its
\* environment variable and its declared default say.
C1_TokenWins ==
    (Done /\ Ok) =>
        \A j \in 1..Len(HNode.Flags) :
            LastSupplied(HNode, HArgs, j) # 0 =>
                HInst[HNode.Flags[j].Index] =
                    TokenDenotes(HNode, HArgs, LastSupplied(HNode, HArgs, j))

\* C2: after a successful Bind, a flag of any kind that no token of the
\* handling node's list names holds the value of its environment variable
\* when that variable is declared and set, and otherwise the value of its
\* declared default when it has one.
C2_AbsentFlagResolved ==
    (Done /\ Ok) =>
        \A j \in 1..Len(HNode.Flags) :
            LET flag == HNode.Flags[j]
                t == FieldType(HNode.Type, flag.Index)
            IN  (\A i \in 1..Len(HArgs) : ~Matches(flag, HArgs[i])) =>
                    IF EnvPresent(flag)
                    THEN HInst[flag.Index] = Denotes(t, LookupEnv(environ, flag.Env.val).val)
                    ELSE ~flag.Default.nil =>
                            HInst[flag.Index] = Denotes(t, flag.Default.val)

\* A flag is satisfied by a supplying token, by its environment variable
\* being set, or by a declared default.
Satisfied(cmd, a, j) ==
    \/ LastSupplied(cmd, a, j) # 0
    \/ EnvPresent(cmd.Flags[j])
    \/ ~cmd.Flags[j].Default.nil

RequiredMissing(flag) ==
    Err("required", "required parameter " \o flag.Name \o " is missing")

\* C3: when a required flag of the handling node is satisfied by nothing,
\* Bind fails, and the required-flag-missing error names an unsatisfied
\* required flag; when every required flag of the node is satisfied, no
\* required-flag-missing error is returned.
C3_RequiredFlags ==
    Done =>
        LET unsatisfied == {j \in 1..Len(HNode.Flags) :
                               /\ HNode.Flags[j].Required
                               /\ ~Satisfied(HNode, HArgs, j)}
        IN  /\ unsatisfied # {} => ~Ok
            /\ ret.err.kind = "required" =>
                   \E j \in unsatisfied : ret.err = RequiredMissing(HNode.Flags[j])

\* C4: a successful Bind returns the tokens of the handling node's list from
\* the first one that is neither a flag nor a flag's value to the end, in
\* their order, also when that token is the first of the list.
C4_Remainder ==
    (Done /\ Ok) =>
        ret.args = SubSeq(HArgs, ScanEnd(HNode, HArgs, 1), Len(HArgs))

-----------------------------------------------------------------------------
(* Subcommand dispatch *)

\* The child of cmd that the first token of a names, 0 when there is none.
NamedChild(cmd, a) ==
    IF a # <<>> /\ \E k \in 1..Len(cmd.SubCommands) : cmd.SubCommands[k].Command = a[1]
    THEN CHOOSE k \in 1..Len(cmd.SubCommands) : cmd.SubCommands[k].Command = a[1]
    ELSE 0

\* Bind descended as the specification states: at every node whose first
\* token names a child, every field of the node but the child's is as it was
\* before the call and the child's instance is allocated; the node reached
\* last has bound exactly the tokens after the path of names.
RECURSIVE Descended(_, _, _, _, _)
Descended(cmd, a, before, after, t) ==
    IF NamedChild(cmd, a) # 0
    THEN LET sub == cmd.SubCommands[NamedChild(cmd, a)]
             st == FieldType(t, sub.Index).elem
         IN  /\ \A i \in DOMAIN after : i # sub.Index => after[i] = before[i]
             /\ ~after[sub.Index].nil
             /\ Descended(sub, Tail(a),
                          IF before[sub.Index].nil THEN Zero(st) ELSE before[sub.Index].val,
                          after[sub.Index].val, st)
    ELSE \E direct \in {bindCommand(cmd, a, before, t, environ, TRUE)} :
             /\ ret.c = direct.c
             /\ ret.c.Command = cmd.Command
             /\ ret.err = direct.err
             /\ after = direct.dst
             /\ Ok => ret.args = direct.args

\* C5: when the first token names a subcommand of the current node, the
\* tokens after it are bound against that subcommand's nested structure and
\* nothing else: the parent's flags are neither set, resolved nor reported
\* missing, and the same happens again at the child, to any depth.
C5_SubcommandDispatch ==
    (Done /\ NamedChild(app.c, args) # 0) =>
        Descended(app.c, args, Instance(rt), dst, TStruct(rt))

\* C5 happens: the root requires --name and nothing supplies it, the tokens go to "add" and on to
\* "deep", and Bind succeeds with the root untouched and deep's default set.
C5_Witness ==
    /\ Done /\ Ok
    /\ rt = "AppRE"
    /\ environ["NAME"].nil
    /\ args = <<"add", "deep", "X">>
    /\ ret.c.Command = "deep"
    /\ dst[1] = ""
    /\ dst[5].val[1] = 0
    /\ dst[5].val[3].val[1] = 7

\* C6: the handling node is fixed by the leading tokens alone: a subcommand
\* name is a dispatch only as the first token of the list a node receives;
\* after a flag or any other token it is an ordinary token, and no child of
\* the handling node is entered.
C6_DispatchAtFrontOnly ==
    Done =>
        /\ ret.c.Command = HNode.Command
        /\ \A k \in 1..Len(HNode.SubCommands) : HInst[HNode.SubCommands[k].Index].nil
        /\ (args # <<>> /\ HasPrefix(args[1], "-")) => ret.c.Command = app.c.Command

\* C6 happens: "add" follows a flag, the root handles the call and "add"
\* comes back as the remainder.
C6_Witness ==
    /\ Done /\ Ok
    /\ args = <<"--verbose", "add", "deep">>
    /\ ret.c.Command = "app"
    /\ ret.args = <<"add", "deep">>
    /\ dst[2] = TRUE
    /\ dst[5].nil

-----------------------------------------------------------------------------
(* Boolean flags and aliases *)

\* C7: for a boolean flag, the plain token sets the field to true and the
\* negated token sets it to false; the token after it is not consumed, a
\* declared default does not override it, and Bind does not break down.
C7_BooleanTokens ==
    Done =>
        \A j \in 1..Len(HNode.Flags) :
            (HNode.Flags[j].Kind = "bool" /\ LastSupplied(HNode, HArgs, j) # 0) =>
                /\ ret.err.kind # "panic"
                /\ Ok => /\ HInst[HNode.Flags[j].Index] =
                                TokenDenotes(HNode, HArgs, LastSupplied(HNode, HArgs, j))
                         /\ ret.args = SubSeq(HArgs, ScanEnd(HNode, HArgs, 1), Len(HArgs))

\* The positions at which a non-boolean flag is supplied in its alias form.
AliasPositions(cmd, a) ==
    {i \in FlagPositions(cmd, a, 1) :
        LET flag == cmd.Flags[FindFlag(cmd, a[i])]
        IN  flag.Kind # "bool" /\ ~flag.Alias.nil /\ a[i] = "-" \o flag.Alias.val}

\* The token list with the long form in place of the alias form at the
\* positions pos of the handling node's list, which begins after depth tokens.
LongForm(a, cmd, depth, pos) ==
    [i \in 1..Len(a) |->
        IF (i - depth) \in pos
        THEN "--" \o cmd.Flags[FindFlag(cmd, a[i])].Name
        ELSE a[i]]

\* C8: a non-boolean flag written as "-alias value" is bound as the same
\* list with "--name value" in its place: same fields, same outcome, same
\* remainder; and the value it supplies last is the one the field holds.
C8_AliasEquivalence ==
    Done =>
        \E node \in {HNode}, depth \in {DispatchDepth(app.c, args)} :
        \E pos \in {AliasPositions(node, SubSeq(args, depth + 1, Len(args)))} :
            pos # {} =>
                /\ \E long \in {AppBind(app.c, LongForm(args, node, depth, pos),
                                        rt, Instance(rt), environ)} :
                       /\ long.dst = dst
                       /\ long.err.kind = ret.err.kind
                       /\ long.c = ret.c
                       /\ Ok => long.args = ret.args
                /\ Ok => \A i \in pos :
                            i = LastSupplied(node, HArgs, FindFlag(node, HArgs[i])) =>
                                HInst[node.Flags[FindFlag(node, HArgs[i])].Index] = HArgs[i + 1]

\* C8 happens: --name has a default and an environment value, the alias
\* form supplies "X", and the field holds "X".
C8_Witness ==
    /\ Done /\ Ok
    /\ rt = "AppDE"
    /\ ~environ["NAME"].nil
    /\ args = <<"-n", "X">>
    /\ dst[1] = "X"
    /\ ret.args = <<>>

-----------------------------------------------------------------------------
(* Integer text *)

Coerced == cerr # "pending"
Signed == field.type.kind \in IntKinds

\* The base a text selects by its first two characters, and what follows
\* the prefix, as the specification states them.
SelectedBase(text) ==
    IF HasPrefix(text, "0x") \/ HasPrefix(text, "0X") THEN 16
    ELSE IF HasPrefix(text, "0b") \/ HasPrefix(text, "0B") THEN 2
    ELSE IF HasPrefix(text, "0o") \/ HasPrefix(text, "0O") THEN 8
    ELSE 10

AfterPrefix(text) ==
    IF SelectedBase(text) = 10 THEN text ELSE SubSeq(text, 3, Len(text))

HasSign(text) == HasPrefix(text, "-") \/ HasPrefix(text, "+")
Unsign(text) == IF HasSign(text) THEN SubSeq(text, 2, Len(text)) ELSE text
SignOf(text) == IF HasPrefix(text, "-") THEN -1 ELSE 1

\* A text of digits of the base, and the number it writes, read from its
\* last digit backwards.
DigitsOf(text, base) ==
    /\ text # ""
    /\ \A i \in 1..Len(text) :
          /\ IsDigitChar(SubSeq(text, i, i))
          /\ DigitVal(SubSeq(text, i, i)) < base

RECURSIVE PlaceValue(_, _)
PlaceValue(text, base) ==
    IF text = "" THEN 0
    ELSE DigitVal(SubSeq(text, Len(text), Len(text)))
         + base * PlaceValue(SubSeq(text, 1, Len(text) - 1), base)

\* A sign followed by a radix prefix.
SignedRadix(text) == HasSign(text) /\ SelectedBase(Unsign(text)) # 10

\* The numbers of the texts checked stay far below 2^31, so that only the
\* 8- and 16-bit kinds can fail to hold one or hold it reduced.
Narrow(kind) == Bits(kind) <= 16

FitsKind(x, kind) ==
    IF kind \in IntKinds
    THEN Narrow(kind) => (-Pow2(Bits(kind) - 1) <= x /\ x < Pow2(Bits(kind) - 1))
    ELSE 0 <= x /\ (Narrow(kind) => x < Pow2(Bits(kind)))

SameUpToWidth(x, y, kind) ==
    IF Narrow(kind) THEN (x - y) % Pow2(Bits(kind)) = 0 ELSE x = y

\* C9: integer text for a signed or unsigned integer field is read in the
\* base its prefix selects, 0x/0X sixteen, 0b/0B two, 0o/0O eight, ten
\* otherwise: digits of that base after the prefix coerce to the number they
\* write, a coerced field holds the number written in that base (up to the
\* width of the field), and 0x2A, 0X2A, 0b101010, 0B101010, 0o52, 0O52 and
\* 42 all give 42.
C9_RadixByPrefix ==
    (Coerced /\ ~SignedRadix(value)) =>
        LET base == SelectedBase(value)
            body == AfterPrefix(value)
            kind == field.type.kind
        IN  /\ value \in {"0x2A", "0X2A", "0b101010", "0B101010", "0o52", "0O52", "42"} =>
                   cerr = ErrNil /\ field.val = 42
            /\ (DigitsOf(body, base) /\ FitsKind(PlaceValue(body, base), kind)) =>
                   cerr = ErrNil /\ field.val = PlaceValue(body, base)
            /\ cerr = ErrNil =>
                   /\ DigitsOf(Unsign(body), base)
                   /\ SameUpToWidth(field.val,
                                    SignOf(body) * PlaceValue(Unsign(body), base), kind)
            /\ cerr # ErrNil => cerr = ErrCanNotParse /\ field.val = 0

\* C9 happens: an upper-case hexadecimal prefix on an 8-bit unsigned field.
C9_Witness ==
    /\ Coerced
    /\ value = "0X2A"
    /\ field.type = TInt("uint8")
    /\ cerr = ErrNil
    /\ field.val = 42

\* C10: on a signed integer field a sign before the radix prefix is
\* accepted: the digits after the prefix are read in the selected base and
\* the sign applied, so that -0x2A gives -42 and +0b101 gives 5.
C10_SignedRadix ==
    (Coerced /\ Signed /\ SignedRadix(value)) =>
        LET base == SelectedBase(Unsign(value))
            body == AfterPrefix(Unsign(value))
        IN  (DigitsOf(body, base)
               /\ FitsKind(SignOf(value) * PlaceValue(body, base), field.type.kind)) =>
                  cerr = ErrNil /\ field.val = SignOf(value) * PlaceValue(body, base)

-----------------------------------------------------------------------------
(* Sequence and boolean text *)

\* The commas of a text, its number of segments, and its k-th segment: the
\* characters between the (k-1)-th and the k-th comma.
Commas(text) == {i \in 1..Len(text) : SubSeq(text, i, i) = ","}

NumSegments(text) == Cardinality(Commas(text)) + 1

CommaNo(text, k) ==
    CHOOSE c \in Commas(text) : Cardinality({d \in Commas(text) : d < c}) = k - 1

Segment(text, k) ==
    SubSeq(text,
           IF k = 1 THEN 1 ELSE CommaNo(text, k - 1) + 1,
           IF k = NumSegments(text) THEN Len(text) ELSE CommaNo(text, k) - 1)

\* C11: a text coerced into a sequence field gives a sequence with one
\* element per comma-separated segment, the k-th element being the value of
\* the k-th segment, whatever the field held before; empty segments are
\* elements too, and a sequence of strings takes every text.
C11_SequenceCoercion ==
    (Coerced /\ field.type.kind = "slice") =>
        /\ field.type.elem.kind = "string" => cerr = ErrNil
        /\ cerr = ErrNil =>
              /\ field.val.len = NumSegments(value)
              /\ \A k \in 1..NumSegments(value) :
                    field.val.arr[k] = Denotes(field.type.elem, Segment(value, k))

\* C12: a text coerced into a boolean destination stores true when it is a
\* truthy word, false when it is a falsy word, and fails with CanNotParse
\* otherwise.
C12_BooleanText ==
    (Coerced /\ field.type = TBool) =>
        IF value \in {"1", "t", "T", "TRUE", "true", "True"}
        THEN cerr = ErrNil /\ field.val = TRUE
        ELSE IF value \in {"0", "f", "F", "FALSE", "false", "False"}
        THEN cerr = ErrNil /\ field.val = FALSE
        ELSE cerr = ErrCanNotParse

-----------------------------------------------------------------------------
(* Help requests, unknown flags and missing values *)

\* A text a destination of type t takes without a parse error.
Storable(t, text) == setValue(Zero(t), t, text, TRUE).err # ErrCanNotParse

\* The scan of the list a, from position i on, reaches a token that is
\* --help or -h and no declared flag: every step before it succeeded (a
\* boolean flag was stored, any other flag had a value and took it, an
\* undeclared flag was passed over) and no other token came first.
RECURSIVE HelpReached(_, _, _)
HelpReached(cmd, a, i) ==
    IF i > Len(a) \/ ~HasPrefix(a[i], "-") THEN FALSE
    ELSE IF FindFlag(cmd, a[i]) = 0
    THEN a[i] \in {"--help", "-h"} \/ HelpReached(cmd, a, i + 1)
    ELSE IF cmd.Flags[FindFlag(cmd, a[i])].Kind = "bool"
    THEN /\ FieldType(cmd.Type, cmd.Flags[FindFlag(cmd, a[i])].Index).kind = "bool"
         /\ HelpReached(cmd, a, i + 1)
    ELSE /\ i + 1 <= Len(a)
         /\ Storable(FieldType(cmd.Type, cmd.Flags[FindFlag(cmd, a[i])].Index), a[i + 1])
         /\ HelpReached(cmd, a, i + 2)

\* C13: Bind fails with ErrHelp exactly when the flag scan of the handling
\* node reaches an undeclared --help or -h: required flags that are missing
\* do not come first, and a --help after the first token that is no flag, or
\* taken as the value of a flag, asks for nothing.
C13_HelpRequest ==
    Done => (HelpReached(HNode, HArgs, 1) <=> ret.err = Err("help", ErrHelp))

\* C13 happens: --name is required and missing, a flag was bound, --help
\* follows and Bind returns ErrHelp.
C13_Witness ==
    /\ Done
    /\ rt = "AppRE"
    /\ environ["NAME"].nil
    /\ args = <<"--verbose", "--help">>
    /\ ret.err = Err("help", ErrHelp)
    /\ dst[2] = TRUE
    /\ dst[1] = ""

\* The positions at which the scan of a passes over an undeclared flag that
\* is no help request (the scan ends at a help request).
RECURSIVE UnknownPositions(_, _, _)
UnknownPositions(cmd, a, i) ==
    IF i > Len(a) \/ ~HasPrefix(a[i], "-") THEN {}
    ELSE IF FindFlag(cmd, a[i]) = 0
    THEN IF a[i] \in {"--help", "-h"} THEN {}
         ELSE {i} \cup UnknownPositions(cmd, a, i + 1)
    ELSE IF cmd.Flags[FindFlag(cmd, a[i])].Kind = "bool"
    THEN UnknownPositions(cmd, a, i + 1)
    ELSE IF i + 1 > Len(a) THEN {}
    ELSE UnknownPositions(cmd, a, i + 2)

\* The token at position i is the flag's name or alias as declared (a
\* boolean flag may be negated).
Declared(cmd, a, i) ==
    LET flag == cmd.Flags[FindFlag(cmd, a[i])]
    IN  \/ a[i] = "--" \o flag.Name
        \/ ~flag.Alias.nil /\ a[i] = "-" \o flag.Alias.val
        \/ flag.Kind = "bool"

\* C14: an undeclared flag that is no help request is passed over: it is
\* no error and writes nothing (a list whose scanned part holds undeclared
\* flags only is bound as the list without them), it takes one token (the
\* token after it is a flag of its own right and gets its value), it does not
\* end the scan and is not part of the remainder.
C14_UnknownFlagSkipped ==
    Done =>
        \E node \in {HNode}, depth \in {DispatchDepth(app.c, args)} :
        \E rest \in {SubSeq(args, depth + 1, Len(args))} :
        \E unknown \in {UnknownPositions(node, rest, 1)},
           stop \in {ScanEnd(node, rest, 1)} :
            unknown # {} =>
                /\ Ok => ret.args = SubSeq(rest, stop, Len(rest))
                /\ Ok => \A i \in FlagPositions(node, rest, 1) :
                            (Declared(node, rest, i)
                                /\ i = LastSupplied(node, rest, FindFlag(node, rest[i]))) =>
                              HInst[node.Flags[FindFlag(node, rest[i])].Index]
                                  = TokenDenotes(node, rest, i)
                /\ unknown = 1..(stop - 1) =>
                      \E bare \in {AppBind(app.c, SubSeq(args, 1, depth),
                                           rt, Instance(rt), environ)} :
                          /\ bare.dst = dst
                          /\ bare.err = ret.err
                          /\ bare.c = ret.c

\* C14 happens: --a is no flag of the root, --name after it is bound and
\* nothing is left over.
C14_Witness ==
    /\ Done /\ Ok
    /\ rt = "App"
    /\ args = <<"--a", "--name", "X">>
    /\ dst[1] = "X"
    /\ ret.args = <<>>

\* The first scan step of the list a, from position i on, that fails, with
\* its position: a flag that is the last token ("requires"), a value the
\* field does not take ("parse"), a help request ("help"), a boolean flag
\* on a field that is no bool ("panic"); "none" when every step succeeds.
RECURSIVE FirstFault(_, _, _)
FirstFault(cmd, a, i) ==
    IF i > Len(a) \/ ~HasPrefix(a[i], "-") THEN [kind |-> "none", pos |-> i]
    ELSE IF FindFlag(cmd, a[i]) = 0
    THEN IF a[i] \in {"--help", "-h"} THEN [kind |-> "help", pos |-> i]
         ELSE FirstFault(cmd, a, i + 1)
    ELSE IF cmd.Flags[FindFlag(cmd, a[i])].Kind = "bool"
    THEN IF FieldType(cmd.Type, cmd.Flags[FindFlag(cmd, a[i])].Index).kind # "bool"
         THEN [kind |-> "panic", pos |-> i]
         ELSE FirstFault(cmd, a, i + 1)
    ELSE IF i + 1 > Len(a) THEN [kind |-> "requires", pos |-> i]
    ELSE IF ~Storable(FieldType(cmd.Type, cmd.Flags[FindFlag(cmd, a[i])].Index), a[i + 1])
    THEN [kind |-> "parse", pos |-> i]
    ELSE FirstFault(cmd, a, i + 2)

\* The kind of a field as the messages name it.
KindName(t) == IF t.kind = "ptr" THEN t.elem.kind ELSE t.kind

\* C15: when the scan comes to a non-boolean flag that is the last token,
\* Bind fails with "<name> requires <kind>", <name> being the name or alias
\* the token used, and the field keeps what it held (its last token's value
\* or the caller's); when the token after the flag is no value of the
\* field's type, Bind fails with "can not parse", the quoted text and the
\* kind.  Bind fails in these ways in no other case.
C15_MissingOrBadValue ==
    Done =>
        \E node \in {HNode}, rest \in {HArgs} :
        \E fault \in {FirstFault(node, rest, 1)} :
            /\ ret.err.kind \in {"requires", "parse"} => fault.kind = ret.err.kind
            /\ fault.kind \in {"requires", "parse"} =>
                  LET flag == node.Flags[FindFlag(node, rest[fault.pos])]
                      kind == KindName(FieldType(node.Type, flag.Index))
                      last == LastSupplied(node, SubSeq(rest, 1, fault.pos - 1),
                                           FindFlag(node, rest[fault.pos]))
                  IN  IF fault.kind = "requires"
                      THEN /\ ret.err.kind = "requires"
                           /\ \/ ret.err.msg = flag.Name \o " requires " \o kind
                              \/ /\ ~flag.Alias.nil
                                 /\ ret.err.msg = flag.Alias.val \o " requires " \o kind
                           /\ HInst[flag.Index] =
                                IF last = 0
                                THEN CallerInst(Instance(rt), TStruct(rt),
                                                DispatchPath(app.c, args))[flag.Index]
                                ELSE TokenDenotes(node, rest, last)
                      ELSE ret.err = Err("parse", "can not parse \"" \o rest[fault.pos + 1]
                                                  \o "\" as " \o kind)

\* C15 happens: --name got "X", the alias comes again as the last token,
\* Bind fails and Name still is "X".
C15_Witness ==
    /\ Done
    /\ args = <<"--name", "X", "-n">>
    /\ ret.err = Err("requires", "n requires string")
    /\ dst[1] = "X"

-----------------------------------------------------------------------------
(* The instance after Bind *)

\* Of the subcommand fields of the instance v of node cmd, the one whose
\* name the first token of a matches is allocated, and so on below it; every
\* other one is nil.
RECURSIVE PathAllocated(_, _, _)
PathAllocated(cmd, a, v) ==
    \A k \in 1..Len(cmd.SubCommands) :
        IF NamedChild(cmd, a) = k
        THEN /\ ~v[cmd.SubCommands[k].Index].nil
             /\ PathAllocated(cmd.SubCommands[k], Tail(a), v[cmd.SubCommands[k].Index].val)
        ELSE v[cmd.SubCommands[k].Index].nil

\* C16: after a successful Bind into an instance whose subcommand fields
\* were all nil, a subcommand field is non-nil exactly when its name was
\* matched on the dispatch path, so at most one per nesting level is.
C16_SelectionObservable ==
    (Done /\ Ok) =>
        /\ PathAllocated(app.c, args, dst)
        /\ Cardinality({k \in 1..Len(app.c.SubCommands) :
                           ~dst[app.c.SubCommands[k].Index].nil}) <= 1

\* C16 happens: the root has the subcommands add and deep, "add" is matched
\* and bound, Add is allocated with its own subcommand field nil, Deep is nil.
C16_Witness ==
    /\ Done /\ Ok
    /\ args = <<"add", "--a", "7">>
    /\ ~dst[5].nil
    /\ dst[5].val[1] = 7
    /\ dst[5].val[3].nil
    /\ dst[6].nil

-----------------------------------------------------------------------------
(* The schema under concurrent callers *)

Returned(c, op) == procs[c].st = "returned" /\ procs[c].op = op

\* The help text of node p, rendered whole.
HelpOf(p) == Initialized(app.c).Help[p]

\* C17: every schema node is rendered at most once, however many calls of
\* init(), Help(), Schema() and Bind() there are and however they
\* interleave, first-time callers included; every Help() on a node returns
\* the node's whole help text, the same for every caller and never empty,
\* and every Schema() holds the whole help text of every node it lists.
C17_RunOnceHelp ==
    /\ \A p \in Nodes(app.c) : schema.renders[p] <= 1
    /\ \A c \in Callers :
           /\ Returned(c, "Help") =>
                  /\ procs[c].out = <<HelpOf(procs[c].node)>>
                  /\ procs[c].out[1] # ""
           /\ Returned(c, "Schema") =>
                  procs[c].out = [k \in 1..Len(Subtree(app.c, procs[c].node)) |->
                                     HelpOf(Subtree(app.c, procs[c].node)[k])]
           /\ \A d \in Callers :
                  Returned(c, "Help") /\ Returned(d, "Help")
                  /\ procs[c].node = procs[d].node
                  => procs[c].out = procs[d].out

\* A caller has called Help() on the App of the node add/deep and holds
\* that node's text; every node has been rendered once.
C17_Witness ==
    /\ Returned(1, "Help")
    /\ procs[1].node = <<1, 1>>
    /\ procs[1].out =
         << "Usage: \n\tapp add deep [OPTIONS] [ARGUEMENTS]\n\nOptions:\n\t-a, --a         [default: 7]\n\t--b              [env: NAME]\n\t-h, --help     Print this help message and exit\n\n" >>
    /\ \A p \in Nodes(app.c) : schema.renders[p] = 1

\* a.SubCommands[i].Parent = a, executed by caller c.
StoresParent(c) == LoopChild(c)

\* a.Help = sb.String(), executed by caller c.
StoresHelp(c) == OnceRun(c)

\* C18: once NewApp has returned, no step of a call to Help(), Schema() or
\* Bind() stores to the Help or the Parent field of a schema node.
C18_SchemaWriteOnce ==
    [][pc = "ready" =>
          \A c \in Callers :
              procs[c].op \in AppOps => ~StoresParent(c) /\ ~StoresHelp(c)]_vars

-----------------------------------------------------------------------------
(* What Bind leaves alone, and what a failed Bind leaves behind *)

\* The instance v of node cmd, of struct type t, against what the caller
\* handed in (before): on the way down the dispatch path only the field of
\* the named child differs, and it is allocated; at the node that handles
\* the tokens only the fields of declared flags may differ.
RECURSIVE FrameKept(_, _, _, _, _)
FrameKept(cmd, a, before, v, t) ==
    \E k \in {NamedChild(cmd, a)} :
        IF k # 0
        THEN \E idx \in {cmd.SubCommands[k].Index} :
                 /\ \A i \in 0..(NumField(t) - 1) : i # idx => v[i] = before[i]
                 /\ ~v[idx].nil
                 /\ FrameKept(cmd.SubCommands[k], Tail(a),
                              IF before[idx].nil THEN Zero(FieldType(t, idx).elem)
                              ELSE before[idx].val,
                              v[idx].val, FieldType(t, idx).elem)
        ELSE \A i \in 0..(NumField(t) - 1) :
                 i \notin {cmd.Flags[j].Index : j \in 1..Len(cmd.Flags)} => v[i] = before[i]

\* C19: when Bind is over, with or without an error, every field of the
\* caller's instance that is neither a declared flag of the node that
\* handled the tokens nor a subcommand field on the dispatch path holds what
\* the caller put there: untagged fields, unexported fields, the flags of
\* the nodes above the handling node and the subcommand fields that were
\* not named.
C19_FrameOfBind ==
    Done => FrameKept(app.c, args, Instance(rt), dst, TStruct(rt))

\* C19 happens: the tokens go to "add", whose --a gets a text that is no
\* number; Bind fails, Add is allocated with its own subcommand field nil,
\* and the root keeps the caller's note and Extra, its flags unresolved
\* and Deep nil.
C19_Witness ==
    /\ Done
    /\ rt = "AppDE"
    /\ args = <<"add", "--a", "X">>
    /\ ret.err.kind = "parse"
    /\ dst[1] = "" /\ dst[2] = FALSE
    /\ dst[3] = "n0" /\ dst[4] = "e0"
    /\ ~dst[5].nil /\ dst[5].val[3].nil
    /\ dst[6].nil

\* The text the resolution pass takes for a flag: the value of its
\* environment variable when that is set, else its default, else none.
ResolutionText(flag) ==
    IF EnvPresent(flag) THEN LookupEnv(environ, flag.Env.val)
    ELSE flag.Default

\* The flags of the node that the error of the resolution pass names: the
\* required flag reported missing, or the flag whose environment value or
\* default is reported as not parsable.
FailedFlags(cmd) ==
    {j \in 1..Len(cmd.Flags) :
        LET flag == cmd.Flags[j]
        IN  \/ ret.err = Err("required",
                             "required parameter " \o flag.Name \o " is missing")
            \/ /\ ~flag.Env.nil
               /\ ~ResolutionText(flag).nil
               /\ ret.err = Err("parseEnv",
                                "can not parse (env " \o flag.Env.val \o ") \""
                                   \o ResolutionText(flag).val \o "\" as " \o flag.Kind)
            \/ /\ ~flag.Default.nil
               /\ ret.err = Err("parseDefault",
                                "can not parse (default value) \""
                                   \o flag.Default.val \o "\" as " \o flag.Kind)}

\* Every pointer on the way down path is allocated.
RECURSIVE AllocatedAlong(_, _)
AllocatedAlong(v, path) ==
    path # <<>> => ~v[path[1]].nil /\ AllocatedAlong(v[path[1]].val, Tail(path))

\* C20: when Bind fails, what it wrote before the failure is still there:
\* every flag of the handling node that a token before the failing one
\* supplies holds the value of the last such token; when the failure is
\* that of the resolution pass, every flag declared before the failing one
\* that no token supplies and that has an environment value or a default
\* holds the value of that text; and the instances allocated on the
\* dispatch path are still allocated.
C20_NoRollback ==
    (Done /\ ~Ok) =>
        /\ AllocatedAlong(dst, DispatchPath(app.c, args))
        /\ \E node \in {HNode}, rest \in {HArgs}, inst \in {HInst} :
           \E fault \in {FirstFault(node, rest, 1)} :
           \E scanned \in {IF fault.kind = "none" THEN rest
                           ELSE SubSeq(rest, 1, fault.pos - 1)} :
               /\ \A j \in 1..Len(node.Flags) :
                      LastSupplied(node, scanned, j) # 0 =>
                          inst[node.Flags[j].Index] =
                              TokenDenotes(node, scanned, LastSupplied(node, scanned, j))
               /\ fault.kind = "none" =>
                      /\ Cardinality(FailedFlags(node)) = 1
                      /\ \A f \in FailedFlags(node), j \in 1..Len(node.Flags) :
                             (/\ j < f
                              /\ LastSupplied(node, rest, j) = 0
                              /\ ~ResolutionText(node.Flags[j]).nil) =>
                                 inst[node.Flags[j].Index] =
                                     Denotes(FieldType(node.Type, node.Flags[j].Index),
                                             ResolutionText(node.Flags[j]).val)

\* C20 happens: NAME is set to a text that is no number and the tokens go
\* to "deep"; the resolution pass gives A its default and fails on B, whose
\* value is NAME's: Bind fails, Deep is allocated and A holds 7.
C20_Witness ==
    /\ Done
    /\ rt = "App"
    /\ args = <<"deep">>
    /\ environ["NAME"] = Some("E")
    /\ ret.err = Err("parseEnv", "can not parse (env NAME) \"E\" as int8")
    /\ ~dst[6].nil
    /\ dst[6].val[1] = 7

-----------------------------------------------------------------------------
(* C21: the three ends of BindOSArgs *)

\* The usage text of the node that handled the process's arguments.
HandlingUsage == schema.Help[NodePath(app.c, HNode)]

\* C21: when BindOSArgs ends on a help request the process has exited with
\* status 0 and the help page is on standard output; when it ends on any
\* other failure the process has exited with status 1 and standard error
\* holds the error message, an empty line and the handling node's usage
\* text; the function returns only when binding succeeded, and then it
\* returns the remaining tokens.
C21_ProcessOutcome ==
    Done =>
        /\ ret.err = Err("help", ErrHelp) =>
               /\ os.exited /\ os.code = 0 /\ ~os.returned
               /\ os.stderr = ""
               /\ \E n \in 0..Len(os.stdout) :
                      /\ SliceFrom(os.stdout, n) = HandlingUsage
                      /\ HasPrefix(os.stdout, HNode.Command)
        /\ ret.err.kind \notin {"nil", "help"} =>
               /\ os.exited /\ os.code = 1 /\ ~os.returned
               /\ os.stdout = ""
               /\ os.stderr = ret.err.msg \o "\n\n" \o HandlingUsage \o "\n"
        /\ os.returned <=> Ok
        /\ Ok => ~os.exited /\ os.ra = ret.args /\ os.stdout = "" /\ os.stderr = ""

\* C21 for the runs in which no write panics.
C21_Unpanicked == Done /\ ret.err.kind # "panic" => C21_ProcessOutcome

-----------------------------------------------------------------------------
(* C22: long tokens match names, short tokens match aliases *)

\* The match as the specification states it: a token with two dashes
\* selects a flag by its name only, a token with one dash by its alias only.
StatedMatch(flag, tok) ==
    IF HasPrefix(tok, "--")
    THEN flag.Name = flagName(tok)
    ELSE HasPrefix(tok, "-") /\ ~flag.Alias.nil /\ flag.Alias.val = flagName(tok)

\* C22: every token the scan of the handling node takes for a flag selects
\* that flag by its name when it begins with "--" and by its alias when it
\* begins with a single "-"; a token "--x" never selects a flag whose alias
\* is x and whose name is not.
C22_PrefixMatching ==
    Done =>
        \E node \in {HNode}, a \in {HArgs} :
            \A i \in FlagPositions(node, a, 1) :
                StatedMatch(node.Flags[FindFlag(node, a[i])], a[i])

-----------------------------------------------------------------------------
(* C23: the written set is canonical *)

\* C23: when the scan of the handling node ends without a failure, every
\* flag a token supplied holds the value of its last token, whatever form
\* the token had, and is not reported missing; and after a successful Bind
\* every non-boolean flag no token supplied holds its environment value,
\* else its default, else what the caller handed in.
C23_WrittenCanonical ==
    Done =>
        \E node \in {HNode}, a \in {HArgs} :
            FirstFault(node, a, 1).kind = "none" =>
                \A j \in 1..Len(node.Flags) :
                    \E flag \in {node.Flags[j]}, last \in {LastSupplied(node, a, j)} :
                        IF last # 0
                        THEN /\ HInst[flag.Index] = TokenDenotes(node, a, last)
                             /\ ret.err # RequiredMissing(flag)
                        ELSE Ok /\ flag.Kind # "bool" =>
                             HInst[flag.Index] =
                                 IF EnvPresent(flag)
                                 THEN Denotes(FieldType(node.Type, flag.Index),
                                              LookupEnv(environ, flag.Env.val).val)
                                 ELSE IF ~flag.Default.nil
                                 THEN Denotes(FieldType(node.Type, flag.Index),
                                              flag.Default.val)
                                 ELSE CallerInst(Instance(rt), TStruct(rt),
                                                 DispatchPath(app.c, args))[flag.Index]

\* The tokens at the flag positions of the handling node are the flags'
\* names after "--" or their aliases after "-".
PlainForms ==
    \A i \in FlagPositions(HNode, HArgs, 1) :
        \E flag \in {HNode.Flags[FindFlag(HNode, HArgs[i])]} :
            \/ HArgs[i] = "--" \o flag.Name
            \/ ~flag.Alias.nil /\ HArgs[i] = "-" \o flag.Alias.val
            \/ flag.Kind = "bool"

\* C23 for the lists whose flag tokens are in those forms.
C23_PlainForms == Done /\ PlainForms => C23_WrittenCanonical

-----------------------------------------------------------------------------
(* C24: value tokens are opaque *)

\* A value token that would mean something at another place: it begins
\* with "-" (a flag or the help flag) or names a subcommand of the root.
Meaningful(tok) ==
    \/ HasPrefix(tok, "-")
    \/ \E k \in 1..Len(app.c.SubCommands) : app.c.SubCommands[k].Command = tok

\* The instance v with x in field idx of the instance reached through path.
RECURSIVE PutAt(_, _, _, _)
PutAt(v, path, idx, x) ==
    IF path = <<>> THEN [v EXCEPT ![idx] = x]
    ELSE [v EXCEPT ![path[1]] = Some(PutAt(v[path[1]].val, Tail(path), idx, x))]

\* The value positions of the handling node's list that hold a meaningful
\* token: the positions after a non-boolean flag the scan comes to.
OpaquePositions(node, a) ==
    {i \in FlagPositions(node, a, 1) :
        /\ node.Flags[FindFlag(node, a[i])].Kind # "bool"
        /\ i + 1 <= Len(a)
        /\ Meaningful(a[i + 1])}

\* C24: the token after a non-boolean flag is its value whatever it looks
\* like.  For a string flag, Bind of the list has the outcome of Bind with
\* the plain value "X" at that place (same error, same node, on success
\* the same remainder, same instance but for the flag's field), and the
\* field holds the token itself wherever the other holds that "X" (the
\* flag is not supplied again later); for a flag of another
\* kind whose value is the first fault of the scan, Bind fails with the
\* parse error that quotes the token.  A value that reads "--help", a flag
\* or a subcommand name is never a help request, a flag or a dispatch.
C24_ValueOpaque ==
    Done =>
        \E node \in {HNode}, a \in {HArgs}, depth \in {DispatchDepth(app.c, args)} :
            \A i \in OpaquePositions(node, a) :
                \E flag \in {node.Flags[FindFlag(node, a[i])]} :
                    IF FieldType(node.Type, flag.Index) = TString
                    THEN \E plain \in {AppBind(app.c, [args EXCEPT ![depth + i + 1] = "X"],
                                                rt, Instance(rt), environ)} :
                           /\ plain.err = ret.err
                           /\ plain.c = ret.c
                           /\ Ok => plain.args = ret.args
                           /\ PutAt(plain.dst, DispatchPath(app.c, args),
                                    flag.Index, HInst[flag.Index]) = dst
                           /\ (/\ LastSupplied(node, a, FindFlag(node, a[i])) = i
                               /\ InstAt(plain.dst, DispatchPath(app.c, args))[flag.Index]
                                     = "X")
                                  => HInst[flag.Index] = a[i + 1]
                    ELSE FirstFault(node, a, 1) = [kind |-> "parse", pos |-> i] =>
                           ret.err = Err("parse", "can not parse " \o Quote(a[i + 1])
                                         \o " as " \o flag.Kind)

\* "--name --help add": Name holds "--help", no help request, no dispatch
\* to add, and the remainder is the token after the value.
C24_Witness ==
    /\ Done /\ Ok
    /\ rt = "App"
    /\ args = <<"--name", "--help", "add">>
    /\ dst[1] = "--help"
    /\ dst[5].nil
    /\ ret.args = <<"add">>

-----------------------------------------------------------------------------
(* C25: the last occurrence of a repeated flag wins *)

\* The elements a sequence holds: the first len places of its array.
Elements(v) == SubSeq(v.arr, 1, v.len)

\* C25: when the scan of a list ends without a failure, every flag the list
\* supplies, once or several times, holds what its last occurrence alone
\* gives it: a sequence flag holds the elements of the last occurrence's
\* value and no element of an earlier one, a boolean flag is true after a
\* last presence and false after a last negation, any other flag holds
\* the last value.
C25_LastOccurrenceWins ==
    Done =>
        \E node \in {HNode}, a \in {HArgs} :
            FirstFault(node, a, 1).kind = "none" =>
                \A j \in 1..Len(node.Flags) :
                    \E flag \in {node.Flags[j]}, last \in {LastSupplied(node, a, j)} :
                        last # 0 =>
                            IF flag.Kind = "slice"
                            THEN Elements(HInst[flag.Index]) = Split(a[last + 1])
                            ELSE HInst[flag.Index] = TokenDenotes(node, a, last)

\* "--clothes a,b -c a": Clothes holds the one element of the last value.
C25_Witness ==
    /\ Done /\ Ok
    /\ rt = "TestApp"
    /\ args = <<"--clothes", "a,b", "-c", "a">>
    /\ Elements(dst[1]) = <<"a">>
    /\ dst[1].arr = <<"a", "b">>

-----------------------------------------------------------------------------
(* C26: the order of the flags does not matter *)

\* The list is made of flag groups only: every token is a flag of the node
\* that the scan comes to or the value of the non-boolean flag before it.
OnlyFlagGroups(node, a) ==
    \E pos \in {FlagPositions(node, a, 1)} :
        /\ \A i \in 1..Len(a) :
              \/ i \in pos
              \/ /\ (i - 1) \in pos
                 /\ node.Flags[FindFlag(node, a[i - 1])].Kind # "bool"
        /\ \A i, k \in pos : i # k => FindFlag(node, a[i]) # FindFlag(node, a[k])

\* The group that begins at position i: the flag, and its value when the
\* flag is no boolean.
FlagGroup(node, a, i) ==
    IF node.Flags[FindFlag(node, a[i])].Kind = "bool"
    THEN <<a[i]>> ELSE <<a[i], a[i + 1]>>

\* The groups at the positions order[k], k = from, from + 1, ..., in a row.
RECURSIVE GroupsInOrder(_, _, _, _)
GroupsInOrder(node, a, order, from) ==
    IF from > Len(order) THEN <<>>
    ELSE FlagGroup(node, a, order[from]) \o GroupsInOrder(node, a, order, from + 1)

\* Every order of the positions pos.
Orders(pos) ==
    {order \in [1..Cardinality(pos) -> pos] :
        \A i, k \in 1..Cardinality(pos) : i # k => order[i] # order[k]}

\* C26: when the list of the handling node is made of flag groups only,
\* each flag once, Bind of the list with the groups in any other order
\* succeeds or fails as this Bind does and returns the same node; when the
\* scan has no fault the error is the same; and on success the instance is
\* the same and both remainders are empty.
C26_OrderIndependent ==
    Done =>
        \E node \in {HNode}, a \in {HArgs}, depth \in {DispatchDepth(app.c, args)} :
            OnlyFlagGroups(node, a) =>
                \A order \in Orders(FlagPositions(node, a, 1)) :
                    \E other \in {AppBind(app.c,
                                          SubSeq(args, 1, depth)
                                              \o GroupsInOrder(node, a, order, 1),
                                          rt, Instance(rt), environ)} :
                        /\ (other.err.kind = "nil") <=> Ok
                        /\ other.c = ret.c
                        /\ FirstFault(node, a, 1).kind = "none" => other.err = ret.err
                        /\ Ok => /\ other.dst = dst
                                 /\ other.args = <<>>
                                 /\ ret.args = <<>>

\* "--age 7 --clothes a,b": two groups, bound as "--clothes a,b --age 7".
C26_Witness ==
    /\ Done /\ Ok
    /\ rt = "TestApp"
    /\ args = <<"--age", "7", "--clothes", "a,b">>
    /\ OnlyFlagGroups(HNode, HArgs)
    /\ Cardinality(Orders(FlagPositions(HNode, HArgs, 1))) = 2
    /\ dst[5] = 7
    /\ Elements(dst[1]) = <<"a", "b">>
    /\ ret.args = <<>>

-----------------------------------------------------------------------------
(* C27: optional fields are allocated on first write *)

\* C27: Bind never panics, and when the scan of the handling node ends
\* without a failure every flag on a pointer field that a token supplied is
\* allocated and holds the token's value: true after a presence and false
\* after a negation for a pointer to bool.
C27_PointerFieldsAllocated ==
    Done =>
        /\ ret.err.kind # "panic"
        /\ \E node \in {HNode}, a \in {HArgs} :
              FirstFault(node, a, 1).kind = "none" =>
                  \A j \in 1..Len(node.Flags) :
                      \E flag \in {node.Flags[j]}, last \in {LastSupplied(node, a, j)} :
                          (last # 0 /\ FieldType(node.Type, flag.Index).kind = "ptr") =>
                              /\ ~HInst[flag.Index].nil
                              /\ HInst[flag.Index] = TokenDenotes(node, a, last)

-----------------------------------------------------------------------------
(* C28: the node Bind returns *)

\* The names from the root's command to the handling node's, as the usage
\* line of the handling node writes them.
RECURSIVE JoinNames(_)
JoinNames(names) ==
    IF names = <<>> THEN "" ELSE " " \o Head(names) \o JoinNames(Tail(names))

CommandChain == app.c.Command \o JoinNames(SubSeq(args, 1, DispatchDepth(app.c, args)))

\* C28: whenever Bind returns, with the remainder or with an error, the node
\* it returns is the deepest node subcommand dispatch reached; and the usage
\* text BindOSArgs prints after a failure is that node's: its usage line
\* names the commands from the root to the handling node.
C28_HandlingNode ==
    (Done /\ ret.err.kind # "panic") =>
        /\ ret.c = HNode
        /\ (os.exited /\ os.code = 1) =>
               /\ os.stderr = ret.err.msg \o "\n\n" \o HandlingUsage \o "\n"
               /\ HasPrefix(HandlingUsage, "Usage: \n\t" \o CommandChain \o " ")

\* "add deep --a X" fails inside deep, two levels down: the node returned
\* is deep's and the usage printed is that of "app add deep".
C28_Witness ==
    /\ Done
    /\ args = <<"add", "deep", "--a">>
    /\ ret.err = Err("requires", "a requires int8")
    /\ ret.c.Command = "deep"
    /\ ret.c.Index = 3
    /\ os.code = 1
    /\ HasPrefix(os.stderr, "a requires int8\n\nUsage: \n\tapp add deep [OPTIONS]")

-----------------------------------------------------------------------------
(* C29: no silent integer wrap *)

\* C29: coercing text into an integer field narrower than 64 bits either
\* fails with CanNotParse or stores exactly the number the text writes in
\* its base; the field never holds that number reduced modulo 2^w.
C29_NoSilentWrap ==
    (Coerced /\ ~SignedRadix(value) /\ Narrow(field.type.kind)) =>
        /\ cerr \in {ErrNil, ErrCanNotParse}
        /\ cerr = ErrNil =>
               \E body \in {AfterPrefix(value)} :
                   field.val = SignOf(body) * PlaceValue(Unsign(body), SelectedBase(value))

-----------------------------------------------------------------------------
(* C30: schema construction terminates *)

\* C30: buildCommand comes to an end with a schema or an error for every
\* struct type: as long as it has returned neither, it has a next step.
C30_BuildTerminates ==
    build.state \in {"schema", "error"} \/ ENABLED NextBuild

\* The step-by-step build of a type ends with the schema buildCommand gives.
BuildAgrees ==
    (build.state = "schema" /\ rt \notin {"Tree", "Ping"}) =>
        build.result = buildCommand(TStruct(rt), ExeName).cmd

\* No call of buildCommand is nested in a call for the same struct type.
NoNestedRepeat ==
    \A i, k \in 1..Len(build.stack) : i # k => build.stack[i].t # build.stack[k].t

====
